---- MODULE Spec2Model ----
(***************************************************************************)
(* A model of google_tasks_mcp.py: the credential store                    *)
(* (GoogleTasksAuth.get_credentials), the tasks gateway                    *)
(* (GoogleTasksClient), the response renderer (ResponseFormatter) and the  *)
(* tools built on them.                                                    *)
(*                                                                         *)
(* Python values are modelled as follows.                                  *)
(*   str            a sequence of one-character strings ("U+2705" stands   *)
(*                  for the single code point of that number)              *)
(*   Optional[x]    a sequence of length at most one: None is << >>,       *)
(*                  a value v is << v >>                                   *)
(*   dict           a function whose DOMAIN is the set of keys present     *)
(*                                                                         *)
(* Each component has its own specification (SpecAuth, SpecUpdate,         *)
(* SpecDates, SpecRender, SpecQuickAdd, SpecBulk, SpecSearch, SpecSummary, *)
(* SpecSurface, SpecListPage, SpecConcurrent, SpecGateway); the variables  *)
(* of the other components stay at their initial values in it.             *)
(***************************************************************************)
EXTENDS Integers, Sequences, FiniteSets, TLC

VARIABLES
    \* ---- credential store ----
    tokenFile,      \* content of TOKEN_PATH
    secretFile,     \* whether CREDENTIALS_PATH exists
    now,            \* the clock expiry is compared with
    issued,         \* number of access tokens the authorization server has issued
    auth,           \* the last get_credentials call: what it did and how it ended
    \* ---- gateway, renderer and tools ----
    libcPadsYear,   \* the platform: whether strftime pads %Y to four digits
    remote,         \* the task record the remote service holds (a dict); in
                    \* SpecGateway a task list record and a task record
    phase,          \* "ready" for an invocation, or what the last one was
    call            \* the invocation in hand: its input, the requests it sent
                    \* to the remote service, how it ended and the text it
                    \* returned; in SpecConcurrent the invocations in flight

authVars == <<tokenFile, secretFile, now, issued, auth>>
toolVars == <<libcPadsYear, remote, phase, call>>

vars == <<authVars, toolVars>>

-----------------------------------------------------------------------------
(* Bounds *)

MaxTime == 3
MaxIssued == 3
TokenLifetime == 2
MaxTasks == 4

-----------------------------------------------------------------------------
(* Optional values *)

None == << >>
Some(v) == << v >>

-----------------------------------------------------------------------------
(***************************************************************************)
(* PYTHON STRINGS                                                          *)
(***************************************************************************)

Range(s) == {s[i] : i \in DOMAIN s}

Digits == <<"0", "1", "2", "3", "4", "5", "6", "7", "8", "9">>
IsDigit(c) == c \in Range(Digits)
DigitVal(c) == (CHOOSE i \in DOMAIN Digits : Digits[i] = c) - 1

RECURSIVE Pow10(_)
Pow10(k) == IF k = 0 THEN 1 ELSE 10 * Pow10(k - 1)

RECURSIVE NumDigits(_)
NumDigits(n) == IF n < 10 THEN 1 ELSE 1 + NumDigits(n \div 10)

\* f"{n:0{w}d}": n in decimal, zero-padded to w digits (n < 10^w)
ZeroPad(n, w) == [i \in 1..w |-> Digits[((n \div Pow10(w - i)) % 10) + 1]]

\* str(n) for n >= 0
Decimal(n) == ZeroPad(n, NumDigits(n))

\* int(s[a..b]) for a run of digits
RECURSIVE Num(_, _, _)
Num(s, a, b) == IF a > b THEN 0 ELSE 10 * Num(s, a, b - 1) + DigitVal(s[b])

AllDigits(s, a, b) == \A i \in a..b : IsDigit(s[i])

StartsWith(s, p) == Len(s) >= Len(p) /\ SubSeq(s, 1, Len(p)) = p
EndsWith(s, p) == Len(s) >= Len(p) /\ SubSeq(s, Len(s) - Len(p) + 1, Len(s)) = p

\* "p in s"
Contains(s, p) ==
    \E i \in 0..(Len(s) - Len(p)) : SubSeq(s, i + 1, i + Len(p)) = p

\* s.replace(old, new): every non-overlapping occurrence, left to right
RECURSIVE Replace(_, _, _)
Replace(s, old, new) ==
    IF Len(s) < Len(old) \/ old = << >> THEN s
    ELSE IF StartsWith(s, old)
         THEN new \o Replace(SubSeq(s, Len(old) + 1, Len(s)), old, new)
         ELSE << s[1] >> \o Replace(Tail(s), old, new)

\* s[:n] for n >= 0
Prefix(s, n) == SubSeq(s, 1, IF n < Len(s) THEN n ELSE Len(s))

\* truth value of an Optional[str]: None and "" are false
Truthy(opt) == opt # None /\ opt[1] # << >>

\* d.get(k, default), d[k] = v and d.pop(k, None) on a dict
Get(d, k, default) == IF k \in DOMAIN d THEN d[k] ELSE default
Put(d, k, v) == [x \in DOMAIN d \cup {k} |-> IF x = k THEN v ELSE d[x]]
Pop(d, k) == [x \in DOMAIN d \ {k} |-> d[x]]
EmptyDict == [x \in {} |-> << >>]

-----------------------------------------------------------------------------
(***************************************************************************)
(* DATES                                                                   *)
(***************************************************************************)

IsLeap(y) == (y % 4 = 0 /\ y % 100 # 0) \/ y % 400 = 0
DaysInMonth(y, m) ==
    CASE m \in {1, 3, 5, 7, 8, 10, 12} -> 31
      [] m \in {4, 6, 9, 11} -> 30
      [] OTHER -> IF IsLeap(y) THEN 29 ELSE 28

\* date.isoformat(): YYYY-MM-DD
isoformat(y, m, d) ==
    ZeroPad(y, 4) \o << "-" >> \o ZeroPad(m, 2) \o << "-" >> \o ZeroPad(d, 2)

S_StartOfDay ==
    <<"T", "0", "0", ":", "0", "0", ":", "0", "0", ".", "0", "0", "0", "Z">>
S_EndOfDay ==
    <<"T", "2", "3", ":", "5", "9", ":", "5", "9", ".", "9", "9", "9", "Z">>
S_Z ==
    <<"Z">>
S_UtcOffset ==
    <<"+", "0", "0", ":", "0", "0">>

\* f"{d}T00:00:00.000Z" and f"{d}T23:59:59.999Z"
StartOfDay(d) == d \o S_StartOfDay
EndOfDay_AsStart(d) == d \o S_StartOfDay
EndOfDay(d) == d \o S_EndOfDay

\* datetime.fromisoformat(s) for the shapes YYYY-MM-DD and
\* YYYY-MM-DDTHH:MM:SS.fff+HH:MM; None stands for the ValueError it raises on
\* anything else (other ISO shapes do not occur in what the gateway writes).
DateShape(s) ==
    /\ Len(s) >= 10
    /\ AllDigits(s, 1, 4) /\ s[5] = "-"
    /\ AllDigits(s, 6, 7) /\ s[8] = "-"
    /\ AllDigits(s, 9, 10)
TimeShape(s) ==
    /\ Len(s) = 29
    /\ s[11] = "T"
    /\ AllDigits(s, 12, 13) /\ s[14] = ":"
    /\ AllDigits(s, 15, 16) /\ s[17] = ":"
    /\ AllDigits(s, 18, 19) /\ s[20] = "."
    /\ AllDigits(s, 21, 23) /\ s[24] \in {"+", "-"}
    /\ AllDigits(s, 25, 26) /\ s[27] = ":"
    /\ AllDigits(s, 28, 29)
DateInRange(s) ==
    /\ Num(s, 1, 4) \in 1..9999
    /\ Num(s, 6, 7) \in 1..12
    /\ Num(s, 9, 10) \in 1..DaysInMonth(Num(s, 1, 4), Num(s, 6, 7))
TimeInRange(s) ==
    /\ Num(s, 12, 13) \in 0..23
    /\ Num(s, 15, 16) \in 0..59
    /\ Num(s, 18, 19) \in 0..59
    /\ Num(s, 25, 26) \in 0..23
    /\ Num(s, 28, 29) \in 0..59
fromisoformat(s) ==
    IF /\ DateShape(s)
       /\ DateInRange(s)
       /\ Len(s) = 10 \/ (TimeShape(s) /\ TimeInRange(s))
    THEN Some([year |-> Num(s, 1, 4), month |-> Num(s, 6, 7), day |-> Num(s, 9, 10)])
    ELSE None

\* due_date.strftime('%Y-%m-%d'). The C library formats %Y: glibc prints the
\* year without padding (year 999 gives "999"), other platforms pad it to four
\* digits; libcPadsYear says which.
strftime_Ymd(dt) ==
    (IF libcPadsYear THEN ZeroPad(dt.year, 4) ELSE Decimal(dt.year))
        \o << "-" >> \o ZeroPad(dt.month, 2) \o << "-" >> \o ZeroPad(dt.day, 2)

-----------------------------------------------------------------------------
(***************************************************************************)
(* RESPONSE FORMATTERS                                                     *)
(***************************************************************************)

CHARACTER_LIMIT == 25000
TruncateMargin == 100

ResponseFormats == {"json", "markdown", "concise", "detailed"}

S_title ==
    <<"t", "i", "t", "l", "e">>
S_notes ==
    <<"n", "o", "t", "e", "s">>
S_status ==
    <<"s", "t", "a", "t", "u", "s">>
S_due ==
    <<"d", "u", "e">>
S_id ==
    <<"i", "d">>
S_parent ==
    <<"p", "a", "r", "e", "n", "t">>
S_position ==
    <<"p", "o", "s", "i", "t", "i", "o", "n">>
S_Untitled ==
    <<"U", "n", "t", "i", "t", "l", "e", "d">>
S_needsAction ==
    <<"n", "e", "e", "d", "s", "A", "c", "t", "i", "o", "n">>
S_completed ==
    <<"c", "o", "m", "p", "l", "e", "t", "e", "d">>
S_NA ==
    <<"N", "/", "A">>
S_Done ==
    <<"U+2705">>
S_Pending ==
    <<"U+23F3">>
S_ConciseDue ==
    <<" ", "U+1F4C5", " ">>
S_H3 ==
    <<"#", "#", "#", " ">>
S_NL ==
    <<"\n">>
S_SP ==
    <<" ">>
S_NotesLabel ==
    <<"*", "*", "N", "o", "t", "e", "s", ":", "*", "*", " ">>
S_DueLabel ==
    <<"*", "*", "D", "u", "e", ":", "*", "*", " ">>
S_StatusLabel ==
    <<"*", "*", "S", "t", "a", "t", "u", "s", ":", "*", "*", " ">>
S_IdLabel ==
    <<"*", "*", "I", "D", ":", "*", "*", " ">>
S_Quote ==
    <<">", " ">>
S_MdDueLabel ==
    <<"U+1F4C5", " ", "*", "*", "D", "u", "e", ":", "*", "*", " ">>
S_NoTasks ==
    <<"N", "o", " ", "t", "a", "s", "k", "s", " ", "f", "o", "u", "n", "d",
      ".">>
S_H1 ==
    <<"#", " ">>
S_NLNL ==
    <<"\n", "\n">>
S_Separator ==
    <<"\n", "-", "-", "-", "\n", "\n">>
S_Truncated ==
    <<"\n", "\n", ".", ".", ".", " ", "(", "t", "r", "u", "n", "c", "a",
      "t", "e", "d", " ", "d", "u", "e", " ", "t", "o", " ", "l", "e", "n",
      "g", "t", "h", ")">>

\* json.dumps(x, indent=2) of a str: quotes, backslashes and control characters
\* are escaped and (ensure_ascii) a non-ASCII code point becomes \uXXXX, or a
\* surrogate pair of two of them above U+FFFF.
JsonEscapeChar(c) ==
    CASE c = "\"" -> << "\\", "\"" >>
      [] c = "\\" -> << "\\", "\\" >>
      [] c = "\n" -> << "\\", "n" >>
      [] c = "U+2705" ->
            <<"\\", "u", "2", "7", "0", "5">>
      [] c = "U+23F3" ->
            <<"\\", "u", "2", "3", "f", "3">>
      [] c = "U+274C" ->
            <<"\\", "u", "2", "7", "4", "c">>
      [] c = "U+1F4C5" ->
            <<"\\", "u", "d", "8", "3", "d", "\\", "u", "d", "c", "c", "5">>
      [] c = "U+1F4CB" ->
            <<"\\", "u", "d", "8", "3", "d", "\\", "u", "d", "c", "c", "b">>
      [] OTHER -> << c >>
RECURSIVE JsonEscape(_)
JsonEscape(s) ==
    IF \A i \in DOMAIN s : JsonEscapeChar(s[i]) = << s[i] >> THEN s
    ELSE JsonEscapeChar(s[1]) \o JsonEscape(Tail(s))
JsonString(s) == << "\"" >> \o JsonEscape(s) \o << "\"" >>

\* The keys of a task record, in the order the remote API returns them (the
\* order json.dumps prints a dict in is the order of its keys); search_tasks
\* adds the key '_list_title' to a record, so it is the last one.
S_list_title ==
    <<"_", "l", "i", "s", "t", "_", "t", "i", "t", "l", "e">>
FieldOrder ==
    << "id", "title", "parent", "position", "notes", "status", "due", "_list_title" >>
Fields == Range(FieldOrder)
KeyName(k) ==
    CASE k = "id" -> S_id [] k = "title" -> S_title [] k = "parent" -> S_parent
      [] k = "position" -> S_position [] k = "notes" -> S_notes
      [] k = "status" -> S_status [] k = "due" -> S_due
      [] k = "_list_title" -> S_list_title

Spaces(n) == [i \in 1..n |-> " "]

\* the members of a dict, one per line at the given indentation, "," between
RECURSIVE JsonMembers(_, _, _)
JsonMembers(d, i, indent) ==
    IF i > Len(FieldOrder) THEN << >>
    ELSE LET k == FieldOrder[i]
             later == {j \in (i + 1)..Len(FieldOrder) : FieldOrder[j] \in DOMAIN d}
         IN  (IF k \in DOMAIN d
              THEN Spaces(indent) \o JsonString(KeyName(k)) \o << ":", " " >>
                   \o JsonString(d[k])
                   \o (IF later = {} THEN << >> ELSE << "," >>) \o S_NL
              ELSE << >>)
             \o JsonMembers(d, i + 1, indent)

\* json.dumps(d, indent=2) of a dict nested at the given indentation
JsonDict(d, indent) ==
    IF DOMAIN d = {} THEN << "{", "}" >>
    ELSE << "{" >> \o S_NL \o JsonMembers(d, 1, indent + 2) \o Spaces(indent) \o << "}" >>

RECURSIVE JsonItems(_, _)
JsonItems(ds, i) ==
    IF i > Len(ds) THEN << >>
    ELSE Spaces(2) \o JsonDict(ds[i], 2)
         \o (IF i < Len(ds) THEN << "," >> ELSE << >>) \o S_NL
         \o JsonItems(ds, i + 1)

\* json.dumps(list_of_dicts, indent=2)
JsonList(ds) ==
    IF ds = << >> THEN << "[", "]" >>
    ELSE << "[" >> \o S_NL \o JsonItems(ds, 1) \o << "]" >>

\* format_task, "Parse due date if present": the date shown for the stored due
DueStr(task) ==
    LET due == Get(task, "due", << >>)
    IN  IF due = << >> THEN << >>
        ELSE LET parsed == fromisoformat(Replace(due, S_Z, S_UtcOffset))
             IN  IF parsed = None THEN due ELSE strftime_Ymd(parsed[1])

\* ResponseFormatter.format_task
format_task(task, format_type) ==
    IF format_type = "json" THEN JsonDict(task, 0)
    ELSE
    LET title == Get(task, "title", S_Untitled)
        notes == Get(task, "notes", << >>)
        status == Get(task, "status", S_needsAction)
        due_str == DueStr(task)
        status_emoji == IF status = S_completed THEN S_Done ELSE S_Pending
    IN  IF format_type = "concise"
        THEN status_emoji \o S_SP \o title
             \o (IF due_str # << >> THEN S_ConciseDue \o due_str ELSE << >>)
        ELSE S_H3 \o status_emoji \o S_SP \o title \o S_NL
             \o (IF format_type = "detailed"
                 THEN (IF notes # << >> THEN S_NotesLabel \o notes \o S_NL ELSE << >>)
                      \o (IF due_str # << >> THEN S_DueLabel \o due_str \o S_NL ELSE << >>)
                      \o S_StatusLabel \o status \o S_NL
                      \o S_IdLabel \o Get(task, "id", S_NA) \o S_NL
                 ELSE (IF notes # << >> THEN S_Quote \o notes \o S_NL ELSE << >>)
                      \o (IF due_str # << >> THEN S_MdDueLabel \o due_str \o S_NL
                          ELSE << >>))

\* the loop bodies of format_multiple_tasks
RECURSIVE JoinConcise(_, _)
JoinConcise(tasks, i) ==
    IF i > Len(tasks) THEN << >>
    ELSE format_task(tasks[i], "concise") \o S_NL \o JoinConcise(tasks, i + 1)

RECURSIVE JoinBlocks(_, _, _)
JoinBlocks(tasks, format_type, i) ==
    IF i > Len(tasks) THEN << >>
    ELSE (IF i > 1 THEN S_Separator ELSE << >>)
         \o format_task(tasks[i], format_type)
         \o JoinBlocks(tasks, format_type, i + 1)

\* "Truncate if too long"
Truncate(result) ==
    IF Len(result) > CHARACTER_LIMIT
    THEN Prefix(result, CHARACTER_LIMIT - TruncateMargin) \o S_Truncated
    ELSE result

\* ResponseFormatter.format_multiple_tasks
format_multiple_tasks(tasks, format_type, title) ==
    IF tasks = << >> THEN S_NoTasks
    ELSE IF format_type = "json" THEN JsonList(tasks)
    ELSE Truncate(S_H1 \o title \o S_NLNL
                  \o (IF format_type = "concise"
                      THEN JoinConcise(tasks, 1)
                      ELSE JoinBlocks(tasks, format_type, 1)))

-----------------------------------------------------------------------------
(***************************************************************************)
(* CREDENTIAL STORE                                                        *)
(***************************************************************************)

\* What TOKEN_PATH can hold: nothing, bytes that do not parse, or the JSON of a
\* credential (access token, expiry, whether a refresh token is present).
FileAbsent == [kind |-> "absent", token |-> 0, expiry |-> 0, refresh |-> FALSE]
FileCorrupt == [kind |-> "corrupt", token |-> 0, expiry |-> 0, refresh |-> FALSE]
Credential(t, e, r) == [kind |-> "cred", token |-> t, expiry |-> e, refresh |-> r]

\* creds.to_json() written to the file, and Credentials.from_authorized_user_file
\* reading it back: the token, the expiry and the refresh token are the fields kept.
ToJson(c) == [kind |-> "cred", token |-> c.token, expiry |-> c.expiry, refresh |-> c.refresh]

\* os.path.exists(TOKEN_PATH) and the try/except around the parse: None when the
\* file is absent or does not parse.
LoadToken(file) ==
    IF file.kind = "cred"
    THEN Some(Credential(file.token, file.expiry, file.refresh))
    ELSE None

\* creds.expired and creds.valid of google.oauth2.credentials.Credentials
ExpiredAt(c, t) == t >= c.expiry
ValidAt(c, t) == c.token # 0 /\ ~ExpiredAt(c, t)
Expired(c) == ExpiredAt(c, now)
Valid(c) == ValidAt(c, now)

\* "if not creds or not creds.valid": the refresh-or-grant block is entered
EntersBlock(creds) == creds = None \/ ~Valid(creds[1])

\* "if creds and creds.expired and creds.refresh_token" inside that block
RefreshAttempted_Eager(creds) == creds # None /\ creds[1].refresh
RefreshAttempted(creds) ==
    EntersBlock(creds) /\ creds # None /\ Expired(creds[1]) /\ creds[1].refresh

\* creds.refresh(Request()): a new access token and expiry, the refresh token kept
Refreshed(c) == Credential(issued + 1, now + TokenLifetime, c.refresh)

\* creds after the refresh step; the except branch sets creds = None
AfterRefresh_KeepsFailed(creds, refreshOk) ==
    IF RefreshAttempted(creds) /\ refreshOk THEN Some(Refreshed(creds[1])) ELSE creds
AfterRefresh(creds, refreshOk) ==
    IF RefreshAttempted(creds)
    THEN IF refreshOk THEN Some(Refreshed(creds[1])) ELSE None
    ELSE creds

\* "if not creds" inside the block: the client-secret check and the grant
GrantBranch_Unguarded(creds) == TRUE
GrantBranch(creds) == creds = None

\* flow.run_local_server(port=0): the authorization server decides whether the
\* grant carries a refresh token
Granted(withRefresh) == Credential(issued + 1, now + TokenLifetime, withRefresh)

\* "with open(TOKEN_PATH, 'w') as token: token.write(creds.to_json())" is reached
\* whenever the block was entered and nothing raised before it
SaveReached_OnlyGrant(loaded, granted) == granted
SaveReached(loaded, granted) == EntersBlock(loaded)

\* The file after the save: written, or on failure either untouched (open
\* failed) or truncated (open succeeded, write failed).
WriteOutcomes == {"ok", "open_failed", "write_failed"}
FileAfterWrite(file, c, w) ==
    CASE w = "ok" -> ToJson(c)
      [] w = "open_failed" -> file
      [] w = "write_failed" -> FileCorrupt

\* No get_credentials call has been made yet.
NoCall == [ended |-> "never", error |-> "none", creds |-> None, log |-> << >>,
           at |-> 0, fileBefore |-> FileAbsent, fileAfter |-> FileAbsent,
           secretBefore |-> FALSE, loaded |-> None, afterRefresh |-> None,
           refreshed |-> FALSE, granted |-> FALSE, writeResult |-> "none"]

\* The whole of get_credentials, with the outcomes of the refresh call, the
\* interactive grant and the file write as inputs.
GetCredentials ==
    /\ issued < MaxIssued
    /\ \E refreshOk \in BOOLEAN, grantOk \in BOOLEAN, withRefresh \in BOOLEAN,
          w \in WriteOutcomes :
        LET loaded == LoadToken(tokenFile)
            tried == RefreshAttempted(loaded)
            creds2 == AfterRefresh(loaded, refreshOk)
            inBlock == EntersBlock(loaded)
            wantGrant == inBlock /\ GrantBranch(creds2)
            configError == wantGrant /\ ~secretFile
            grantRun == wantGrant /\ secretFile
            grantFailed == grantRun /\ ~grantOk
            creds3 == IF grantRun /\ grantOk THEN Some(Granted(withRefresh)) ELSE creds2
            raisedEarly == configError \/ grantFailed
            saving == ~raisedEarly /\ SaveReached(loaded, grantRun)
            writeFailed == saving /\ w # "ok"
            log == (IF tried THEN << "refresh" >> ELSE << >>)
                   \o (IF grantRun THEN << "grant" >> ELSE << >>)
                   \o (IF saving THEN << "write" >> ELSE << >>)
            newTokens == (IF tried /\ refreshOk THEN 1 ELSE 0)
                         + (IF grantRun /\ grantOk THEN 1 ELSE 0)
            fileAfter == IF saving THEN FileAfterWrite(tokenFile, creds3[1], w)
                         ELSE tokenFile
        IN  /\ tokenFile' = fileAfter
            /\ issued' = issued + newTokens
            /\ auth' = [ended |-> IF raisedEarly \/ writeFailed THEN "raised" ELSE "returned",
                        error |-> CASE configError -> "config"
                                    [] grantFailed -> "grant"
                                    [] writeFailed -> "write"
                                    [] OTHER -> "none",
                        creds |-> IF raisedEarly \/ writeFailed THEN None ELSE creds3,
                        log |-> log,
                        at |-> now,
                        fileBefore |-> tokenFile,
                        fileAfter |-> fileAfter,
                        secretBefore |-> secretFile,
                        loaded |-> loaded,
                        afterRefresh |-> creds2,
                        refreshed |-> tried /\ refreshOk,
                        granted |-> grantRun /\ grantOk,
                        writeResult |-> IF saving THEN w ELSE "none"]
            /\ UNCHANGED <<secretFile, now, toolVars>>

\* ---- the environment of the credential store ----

\* Time passes; a stored access token expires when the clock reaches its expiry.
Tick ==
    /\ now < MaxTime
    /\ now' = now + 1
    /\ UNCHANGED <<tokenFile, secretFile, issued, auth, toolVars>>

\* The user removes or damages the token file, or installs or removes the
\* client-secret file.
TokenFileRemoved ==
    /\ tokenFile.kind # "absent"
    /\ tokenFile' = FileAbsent
    /\ UNCHANGED <<secretFile, now, issued, auth, toolVars>>

TokenFileDamaged ==
    /\ tokenFile.kind = "cred"
    /\ tokenFile' = FileCorrupt
    /\ UNCHANGED <<secretFile, now, issued, auth, toolVars>>

SecretFileChanged ==
    /\ secretFile' = ~secretFile
    /\ UNCHANGED <<tokenFile, now, issued, auth, toolVars>>


-----------------------------------------------------------------------------
(***************************************************************************)
(* TASKS GATEWAY (GoogleTasksClient)                                       *)
(***************************************************************************)

S_default ==
    <<"@", "d", "e", "f", "a", "u", "l", "t">>
S_clear ==
    <<"c", "l", "e", "a", "r">>
S_HttpError ==
    <<"<", "H", "t", "t", "p", "E", "r", "r", "o", "r", ">">>

\* GoogleTasksClient.create_task: the body of the insert request
CreateBody(title, notes, due) ==
    LET b0 == Put(EmptyDict, "title", title)
        b1 == IF Truthy(notes) THEN Put(b0, "notes", notes[1]) ELSE b0
    IN  IF Truthy(due) THEN Put(b1, "due", StartOfDay(due[1])) ELSE b1

\* GoogleTasksClient.list_tasks: the query parameters of the list request
ListParams(tasklist_id, kw) ==
    LET p0 == [k \in {"tasklist", "maxResults", "showCompleted", "showDeleted",
                      "showHidden"} |->
                 CASE k = "tasklist" -> tasklist_id
                   [] k = "maxResults" -> kw.max_results
                   [] k = "showCompleted" -> kw.show_completed
                   [] k = "showDeleted" -> kw.show_deleted
                   [] k = "showHidden" -> kw.show_hidden]
        p1 == IF Truthy(kw.due_min)
              THEN Put(p0, "dueMin", StartOfDay(kw.due_min[1])) ELSE p0
        p2 == IF Truthy(kw.due_max)
              THEN Put(p1, "dueMax", EndOfDay(kw.due_max[1])) ELSE p1
        p3 == IF Truthy(kw.completed_min)
              THEN Put(p2, "completedMin", StartOfDay(kw.completed_min[1])) ELSE p2
        p4 == IF Truthy(kw.completed_max)
              THEN Put(p3, "completedMax", EndOfDay(kw.completed_max[1])) ELSE p3
        p5 == IF Truthy(kw.updated_min)
              THEN Put(p4, "updatedMin", StartOfDay(kw.updated_min[1])) ELSE p4
    IN  IF Truthy(kw.page_token) THEN Put(p5, "pageToken", kw.page_token[1]) ELSE p5

\* GoogleTasksClient.update_task, "Apply updates": the fetched record with the
\* updates laid over it
MergeUpdates_Blind(task, updates) ==
    LET t0 == [k \in DOMAIN task \cap {"id"} |-> task[k]]
        t1 == IF "title" \in DOMAIN updates THEN Put(t0, "title", updates["title"]) ELSE t0
        t2 == IF "notes" \in DOMAIN updates THEN Put(t1, "notes", updates["notes"]) ELSE t1
        t3 == IF "status" \in DOMAIN updates THEN Put(t2, "status", updates["status"]) ELSE t2
    IN  IF "due_date" \in DOMAIN updates /\ updates["due_date"] # S_clear
        THEN Put(t3, "due", StartOfDay(updates["due_date"])) ELSE t3
MergeUpdates_NoSentinel(task, updates) ==
    LET t1 == IF "title" \in DOMAIN updates /\ updates["title"] # << >>
              THEN Put(task, "title", updates["title"]) ELSE task
        t2 == IF "notes" \in DOMAIN updates /\ updates["notes"] # << >>
              THEN Put(t1, "notes", updates["notes"]) ELSE t1
        t3 == IF "status" \in DOMAIN updates /\ updates["status"] # << >>
              THEN Put(t2, "status", updates["status"]) ELSE t2
    IN  IF "due_date" \in DOMAIN updates /\ updates["due_date"] # << >>
        THEN Put(t3, "due", StartOfDay(updates["due_date"])) ELSE t3
MergeUpdates(task, updates) ==
    LET t1 == IF "title" \in DOMAIN updates /\ updates["title"] # << >>
              THEN Put(task, "title", updates["title"]) ELSE task
        t2 == IF "notes" \in DOMAIN updates /\ updates["notes"] # << >>
              THEN Put(t1, "notes", updates["notes"]) ELSE t1
        t3 == IF "status" \in DOMAIN updates /\ updates["status"] # << >>
              THEN Put(t2, "status", updates["status"]) ELSE t2
    IN  IF "due_date" \in DOMAIN updates
        THEN IF updates["due_date"] = S_clear THEN Pop(t3, "due")
             ELSE IF updates["due_date"] # << >>
                  THEN Put(t3, "due", StartOfDay(updates["due_date"]))
                  ELSE t3
        ELSE t3

-----------------------------------------------------------------------------
(***************************************************************************)
(* TOOLS                                                                   *)
(***************************************************************************)

S_t1 ==
    <<"t", "1">>
S_t2 ==
    <<"t", "2">>
S_p1 ==
    <<"p", "1">>
S_pos1 ==
    <<"0", "0", "0", "0", "0", "0", "0", "0", "0", "0", "0", "0", "0", "0",
      "0", "0", "0", "0", "0", "1">>
S_BuyMilk ==
    <<"B", "u", "y", " ", "m", "i", "l", "k">>
S_CallBank ==
    <<"C", "a", "l", "l", " ", "b", "a", "n", "k">>
S_Skimmed ==
    <<"s", "k", "i", "m", "m", "e", "d">>
S_Two ==
    <<"t", "w", "o", " ", "l", "i", "t", "r", "e", "s">>
S_tok ==
    <<"C", "j", "k", "K", "E", "Q">>
S_Tasks ==
    <<"T", "a", "s", "k", "s">>
S_Task ==
    <<"T", "a", "s", "k", " ">>
S_CompletedMsg ==
    <<"U+2705", " ", "c", "o", "m", "p", "l", "e", "t", "e", "d">>
S_updated ==
    <<"u", "p", "d", "a", "t", "e", "d">>
S_Successfully ==
    <<" ", "s", "u", "c", "c", "e", "s", "s", "f", "u", "l", "l", "y", "!",
      "\n", "\n">>
S_ErrUpdating ==
    <<"E", "r", "r", "o", "r", " ", "u", "p", "d", "a", "t", "i", "n", "g",
      " ", "t", "a", "s", "k", ":", " ">>
S_VerifyTaskId ==
    <<".", " ", "P", "l", "e", "a", "s", "e", " ", "v", "e", "r", "i", "f",
      "y", " ", "t", "h", "e", " ", "t", "a", "s", "k", " ", "I", "D", " ",
      "a", "n", "d", " ", "t", "r", "y", " ", "a", "g", "a", "i", "n", ".">>
S_Created ==
    <<"U+2705", " ", "T", "a", "s", "k", " ", "c", "r", "e", "a", "t", "e",
      "d", " ", "s", "u", "c", "c", "e", "s", "s", "f", "u", "l", "l", "y",
      "!", "\n", "\n">>
S_ErrCreating ==
    <<"E", "r", "r", "o", "r", " ", "c", "r", "e", "a", "t", "i", "n", "g",
      " ", "t", "a", "s", "k", ":", " ">>
S_CheckInput ==
    <<".", " ", "P", "l", "e", "a", "s", "e", " ", "c", "h", "e", "c", "k",
      " ", "y", "o", "u", "r", " ", "i", "n", "p", "u", "t", " ", "a", "n",
      "d", " ", "t", "r", "y", " ", "a", "g", "a", "i", "n", ".">>
S_BadDueDate ==
    <<"D", "u", "e", " ", "d", "a", "t", "e", " ", "m", "u", "s", "t", " ",
      "b", "e", " ", "i", "n", " ", "I", "S", "O", " ", "f", "o", "r", "m",
      "a", "t", " ", "(", "Y", "Y", "Y", "Y", "-", "M", "M", "-", "D", "D",
      ")">>
S_NoTasksMatching ==
    <<"N", "o", " ", "t", "a", "s", "k", "s", " ", "f", "o", "u", "n", "d",
      " ", "m", "a", "t", "c", "h", "i", "n", "g", " ", "y", "o", "u", "r",
      " ", "c", "r", "i", "t", "e", "r", "i", "a", ".">>
S_TasksFromList ==
    <<"T", "a", "s", "k", "s", " ", "f", "r", "o", "m", " ", "l", "i", "s",
      "t", " ", "'">>
S_Apostrophe ==
    <<"'">>
S_MoreResults ==
    <<"\n", "\n", "*", "*", "M", "o", "r", "e", " ", "r", "e", "s", "u",
      "l", "t", "s", " ", "a", "v", "a", "i", "l", "a", "b", "l", "e", ".",
      "*", "*", " ", "U", "s", "e", " ", "p", "a", "g", "e", "_", "t", "o",
      "k", "e", "n", ":", " ", "U+0060">>
S_NextPage ==
    <<"U+0060", " ", "t", "o", " ", "g", "e", "t", " ", "t", "h", "e", " ",
      "n", "e", "x", "t", " ", "p", "a", "g", "e", ".">>
S_ErrListing ==
    <<"E", "r", "r", "o", "r", " ", "l", "i", "s", "t", "i", "n", "g", " ",
      "t", "a", "s", "k", "s", ":", " ">>
S_CheckFilters ==
    <<".", " ", "P", "l", "e", "a", "s", "e", " ", "c", "h", "e", "c", "k",
      " ", "y", "o", "u", "r", " ", "f", "i", "l", "t", "e", "r", "s", " ",
      "a", "n", "d", " ", "t", "r", "y", " ", "a", "g", "a", "i", "n", ".">>

NoInvocation == [tool |-> "none"]

\* ---- update_task ----

\* the inputs UpdateTaskInput admits that the model draws from
UpdateDates == {isoformat(2024, 12, 25), isoformat(2025, 1, 31)}
UpdateTaskInputs ==
    [task_id : {S_t1},
     tasklist_id : {S_default},
     title : {None, Some(S_CallBank)},
     notes : {None, Some(<< >>), Some(S_Two)},
     status : {None, Some(S_needsAction), Some(S_completed)},
     due_date : {None, Some(<< >>), Some(S_clear)} \cup {Some(d) : d \in UpdateDates}]

\* update_task (tool): the updates dict handed to the gateway as **updates
UpdatesOf(input) ==
    LET keys == {k \in {"title", "notes", "status", "due_date"} :
                   CASE k = "title" -> Truthy(input.title)
                     [] k = "notes" -> input.notes # None
                     [] k = "status" -> input.status # None
                     [] k = "due_date" -> Truthy(input.due_date)}
    IN  [k \in keys |-> input[k][1]]

\* update_task (tool) with GoogleTasksClient.update_task: fetch, merge, write
\* back and render; either remote call may fail.
UpdateTaskTool ==
    /\ phase = "ready"
    /\ \E input \in UpdateTaskInputs, fetchOk \in BOOLEAN, writeOk \in BOOLEAN :
        LET updates == UpdatesOf(input)
            body == MergeUpdates(remote, updates)
            getReq == [method |-> "tasks.get", tasklist |-> input.tasklist_id,
                       task |-> input.task_id]
            updReq == [method |-> "tasks.update", tasklist |-> input.tasklist_id,
                       task |-> input.task_id, body |-> body]
            ok == fetchOk /\ writeOk
            status_msg == IF input.status = Some(S_completed)
                          THEN S_CompletedMsg ELSE S_updated
        IN  /\ remote' = IF ok THEN body ELSE remote
            /\ call' = [tool |-> "update_task",
                        input |-> input,
                        fetched |-> IF fetchOk THEN Some(remote) ELSE None,
                        sent |-> IF fetchOk THEN << getReq, updReq >> ELSE << getReq >>,
                        ended |-> IF ok THEN "ok" ELSE "error",
                        output |-> IF ok
                                   THEN S_Task \o status_msg \o S_Successfully
                                        \o format_task(body, "detailed")
                                   ELSE S_ErrUpdating \o S_HttpError \o S_VerifyTaskId]
            /\ phase' = "done"
    /\ UNCHANGED <<libcPadsYear, authVars>>

\* ---- create_task ----

SampleYears == {999, 1000, 2024}
SampleMonths == {2, 12}
SampleDays == {1, 29}
SampleDates ==
    {isoformat(y, m, d) : y \in SampleYears, m \in SampleMonths, d \in SampleDays}

CreateTaskInputs ==
    [title : {S_BuyMilk},
     notes : {None, Some(<< >>), Some(S_Skimmed)},
     due_date : {None, Some(<< >>)} \cup {Some(d) : d \in SampleDates},
     tasklist_id : {S_default},
     parent_task_id : {None}]

\* CreateTaskInput.validate_due_date
validate_due_date(v) == Truthy(v) => fromisoformat(v[1]) # None

\* what the remote service stores and returns for an inserted body
Inserted(body) ==
    Put(Put(Put(body, "id", S_t1), "status", S_needsAction), "position", S_pos1)

\* create_task (tool) with GoogleTasksClient.create_task
CreateTaskTool ==
    /\ phase = "ready"
    /\ \E input \in CreateTaskInputs, ok \in BOOLEAN :
        LET valid == validate_due_date(input.due_date)
            body == CreateBody(input.title, input.notes, input.due_date)
            req == [method |-> "tasks.insert", tasklist |-> input.tasklist_id,
                    body |-> body, parent |-> input.parent_task_id, previous |-> None]
            result == Inserted(body)
        IN  /\ remote' = IF valid /\ ok THEN result ELSE remote
            /\ call' = [tool |-> "create_task",
                        input |-> input,
                        sent |-> IF valid THEN << req >> ELSE << >>,
                        ended |-> IF ~valid THEN "rejected"
                                  ELSE IF ok THEN "ok" ELSE "error",
                        output |-> IF ~valid THEN S_BadDueDate
                                   ELSE IF ok
                                   THEN S_Created \o format_task(result, "detailed")
                                   ELSE S_ErrCreating \o S_HttpError \o S_CheckInput]
            /\ phase' = "done"
    /\ UNCHANGED <<libcPadsYear, authVars>>

\* ---- list_tasks ----

MaxResultsDefault == 30
FilterDate == isoformat(2024, 12, 1)
ListTasksInputs ==
    [tasklist_id : {S_default},
     max_results : {MaxResultsDefault},
     show_completed : {FALSE},
     show_deleted : {FALSE},
     show_hidden : {FALSE},
     due_min : {None, Some(<< >>), Some(FilterDate)},
     due_max : {None, Some(<< >>), Some(FilterDate)},
     completed_min : {None, Some(FilterDate)},
     completed_max : {None, Some(FilterDate)},
     updated_min : {None, Some(FilterDate)},
     page_token : {None, Some(S_tok)},
     response_format : {"markdown"}]

\* list_tasks (tool), the text for the 'items' and 'nextPageToken' of the result
ListTasksOutput(input, tasks, nextPageToken) ==
    IF tasks = << >> THEN S_NoTasksMatching
    ELSE format_multiple_tasks(tasks, input.response_format,
                               S_TasksFromList \o input.tasklist_id \o S_Apostrophe)
         \o (IF Truthy(nextPageToken)
             THEN S_MoreResults \o nextPageToken[1] \o S_NextPage
             ELSE << >>)

\* list_tasks (tool) with GoogleTasksClient.list_tasks
ListTasksTool ==
    /\ phase = "ready"
    /\ \E input \in ListTasksInputs, ok \in BOOLEAN, nextPageToken \in {None, Some(S_tok)} :
        LET params == ListParams(input.tasklist_id, input)
            req == [method |-> "tasks.list", params |-> params]
            tasks == IF DOMAIN remote = {} THEN << >> ELSE << remote >>
        IN  /\ call' = [tool |-> "list_tasks",
                        input |-> input,
                        sent |-> << req >>,
                        ended |-> IF ok THEN "ok" ELSE "error",
                        output |-> IF ~ok
                                   THEN S_ErrListing \o S_HttpError \o S_CheckFilters
                                   ELSE ListTasksOutput(input, tasks, nextPageToken)]
            /\ phase' = "done"
    /\ UNCHANGED <<libcPadsYear, remote, authVars>>

\* ---- format_task on the record just created ----

FormatTask ==
    /\ phase = "done"
    /\ call.tool = "create_task"
    /\ call.ended = "ok"
    /\ \E format_type \in ResponseFormats :
        call' = [tool |-> "format_task",
                 task |-> remote,
                 format_type |-> format_type,
                 due_date |-> call.input.due_date,
                 output |-> format_task(remote, format_type)]
    /\ phase' = "shown"
    /\ UNCHANGED <<libcPadsYear, remote, authVars>>

\* ---- format_multiple_tasks on a list of records ----

TITLE_MAX == 500
NOTES_MAX == 8192

ShortTask ==
    ("id" :> S_t1) @@ ("title" :> S_BuyMilk) @@ ("status" :> S_needsAction)
    @@ ("due" :> StartOfDay(FilterDate))
LongTask ==
    ("id" :> S_t2) @@ ("title" :> [i \in 1..TITLE_MAX |-> "x"])
    @@ ("notes" :> [i \in 1..NOTES_MAX |-> "n"]) @@ ("status" :> S_completed)
SampleTask(name) == IF name = "long" THEN LongTask ELSE ShortTask
TasksOf(picks) == [i \in DOMAIN picks |-> SampleTask(picks[i])]
TaskPicks == UNION {[1..k -> {"short", "long"}] : k \in 0..MaxTasks}

FormatMultipleTasks ==
    /\ phase = "ready"
    /\ call.tool = "format_multiple_tasks"
    /\ call' = [call EXCEPT !.output = Some(format_multiple_tasks(
                                TasksOf(call.tasks), call.format_type, call.title))]
    /\ phase' = "done"
    /\ UNCHANGED <<libcPadsYear, remote, authVars>>

\* The server is ready for the next invocation.
NextInvocation ==
    /\ phase # "ready"
    /\ call.tool # "format_multiple_tasks"
    /\ phase' = "ready"
    /\ call' = NoInvocation
    /\ UNCHANGED <<libcPadsYear, remote, authVars>>

-----------------------------------------------------------------------------
(***************************************************************************)
(* SPECIFICATIONS                                                          *)
(***************************************************************************)

AuthIdle ==
    /\ tokenFile = FileAbsent
    /\ secretFile = TRUE
    /\ now = 0
    /\ issued = 0
    /\ auth = NoCall

ToolsIdle ==
    /\ libcPadsYear = FALSE
    /\ remote = EmptyDict
    /\ phase = "ready"
    /\ call = NoInvocation

\* the credential store
AuthInit ==
    /\ tokenFile = FileAbsent
    /\ secretFile \in BOOLEAN
    /\ now = 0
    /\ issued = 0
    /\ auth = NoCall
    /\ ToolsIdle

AuthNext ==
    \/ GetCredentials
    \/ Tick
    \/ TokenFileRemoved
    \/ TokenFileDamaged
    \/ SecretFileChanged

SpecAuth == AuthInit /\ [][AuthNext]_vars

\* update_task on a stored task
StoredTasks ==
    { ("id" :> S_t1) @@ ("title" :> S_BuyMilk) @@ ("parent" :> S_p1)
        @@ ("position" :> S_pos1) @@ ("notes" :> S_Skimmed)
        @@ ("status" :> S_needsAction) @@ ("due" :> StartOfDay(FilterDate)),
      ("id" :> S_t1) @@ ("title" :> S_BuyMilk) @@ ("position" :> S_pos1)
        @@ ("status" :> S_completed) }

UpdateInit ==
    /\ AuthIdle
    /\ libcPadsYear \in BOOLEAN
    /\ remote \in StoredTasks
    /\ phase = "ready"
    /\ call = NoInvocation

UpdateNext ==
    \/ UpdateTaskTool
    \/ NextInvocation

SpecUpdate == UpdateInit /\ [][UpdateNext]_vars

\* create_task, list_tasks and the display of a created task
DatesInit ==
    /\ AuthIdle
    /\ libcPadsYear \in BOOLEAN
    /\ remote = EmptyDict
    /\ phase = "ready"
    /\ call = NoInvocation

DatesNext ==
    \/ CreateTaskTool
    \/ ListTasksTool
    \/ FormatTask
    \/ NextInvocation

SpecDates == DatesInit /\ [][DatesNext]_vars

\* format_multiple_tasks on every list of up to MaxTasks sample tasks
RenderInit ==
    /\ AuthIdle
    /\ libcPadsYear \in BOOLEAN
    /\ remote = EmptyDict
    /\ phase = "ready"
    /\ \E picks \in TaskPicks, format_type \in ResponseFormats :
        call = [tool |-> "format_multiple_tasks", tasks |-> picks,
                format_type |-> format_type, title |-> S_Tasks, output |-> None]

RenderNext == FormatMultipleTasks

SpecRender == RenderInit /\ [][RenderNext]_vars

-----------------------------------------------------------------------------
(***************************************************************************)
(* WORKFLOW TOOLS: quick_add_task, bulk_create_tasks, search_tasks,        *)
(* get_task_summary                                                        *)
(***************************************************************************)

\* ---- more of Python's str ----

UpperCase ==
    <<"A", "B", "C", "D", "E", "F", "G", "H", "I", "J", "K", "L", "M", "N",
      "O", "P", "Q", "R", "S", "T", "U", "V", "W", "X", "Y", "Z">>
LowerCase ==
    <<"a", "b", "c", "d", "e", "f", "g", "h", "i", "j", "k", "l", "m", "n",
      "o", "p", "q", "r", "s", "t", "u", "v", "w", "x", "y", "z">>

\* s.lower() (the texts of the model are ASCII)
LowerChar(c) ==
    IF c \in Range(UpperCase)
    THEN LowerCase[CHOOSE i \in DOMAIN UpperCase : UpperCase[i] = c]
    ELSE c
lower(s) == [i \in DOMAIN s |-> LowerChar(s[i])]

\* s.strip(): leading and trailing whitespace removed
Whitespace == {" ", "\n", "\t", "\r"}
RECURSIVE lstrip(_)
lstrip(s) == IF s # << >> /\ Head(s) \in Whitespace THEN lstrip(Tail(s)) ELSE s
RECURSIVE rstrip(_)
rstrip(s) ==
    IF s # << >> /\ s[Len(s)] \in Whitespace
    THEN rstrip(SubSeq(s, 1, Len(s) - 1)) ELSE s
strip(s) == rstrip(lstrip(s))

\* ---- datetime.date and timedelta ----

Date(y, m, d) == [year |-> y, month |-> m, day |-> d]
NextDay(t) ==
    IF t.day < DaysInMonth(t.year, t.month) THEN Date(t.year, t.month, t.day + 1)
    ELSE IF t.month < 12 THEN Date(t.year, t.month + 1, 1)
    ELSE Date(t.year + 1, 1, 1)
PrevDay(t) ==
    IF t.day > 1 THEN Date(t.year, t.month, t.day - 1)
    ELSE IF t.month > 1
         THEN Date(t.year, t.month - 1, DaysInMonth(t.year, t.month - 1))
    ELSE Date(t.year - 1, 12, 31)

\* t + timedelta(days=n), n of either sign
RECURSIVE AddDays(_, _)
AddDays(t, n) ==
    IF n = 0 THEN t
    ELSE IF n > 0 THEN AddDays(NextDay(t), n - 1)
    ELSE AddDays(PrevDay(t), n + 1)

\* t.isoformat()
IsoDate(t) == isoformat(t.year, t.month, t.day)

\* datetime.now().date(): the local dates the model draws from (ends of
\* months and years, a leap day)
Todays ==
    {Date(2024, 2, 28), Date(2023, 2, 28), Date(2024, 12, 25), Date(2024, 12, 31),
     Date(2025, 1, 1), Date(2024, 3, 1)}

\* ---- quick_add_task ----

S_tomorrow ==
    <<"t", "o", "m", "o", "r", "r", "o", "w">>
S_today ==
    <<"t", "o", "d", "a", "y">>
S_next_week ==
    <<"n", "e", "x", "t", " ", "w", "e", "e", "k">>
S_QuickAdded ==
    <<"U+2705", " ", "T", "a", "s", "k", " ", "a", "d", "d", "e", "d", " ",
      "v", "i", "a", " ", "q", "u", "i", "c", "k", " ", "a", "d", "d", "!",
      "\n", "\n">>
S_ErrQuickAdd ==
    <<"E", "r", "r", "o", "r", " ", "i", "n", " ", "q", "u", "i", "c", "k",
      " ", "a", "d", "d", ":", " ">>
S_BuyMilkTomorrow ==
    <<"B", "u", "y", " ", "m", "i", "l", "k", " ", "t", "o", "m", "o", "r",
      "r", "o", "w">>
S_MeetingFriday ==
    <<"M", "e", "e", "t", "i", "n", "g", " ", "F", "r", "i", "d", "a", "y">>
S_PaddedMeeting ==
    <<" ", " ", "M", "e", "e", "t", "i", "n", "g", " ", "F", "r", "i", "d",
      "a", "y", " ">>
S_CallMomToday ==
    <<"C", "a", "l", "l", " ", "M", "o", "m", " ", "T", "O", "D", "A", "Y">>
S_TodayOrTomorrow ==
    <<"T", "o", "d", "a", "y", " ", "o", "r", " ", "t", "o", "m", "o", "r",
      "r", "o", "w">>
S_NextWeekToday ==
    <<"P", "l", "a", "n", " ", "n", "e", "x", "t", " ", "w", "e", "e", "k",
      " ", "t", "o", "d", "a", "y">>
S_AllThree ==
    <<"n", "e", "x", "t", " ", "w", "e", "e", "k", ",", " ", "t", "o", "d",
      "a", "y", ",", " ", "T", "o", "m", "o", "r", "r", "o", "w", ",", " ",
      "t", "o", "m", "o", "r", "r", "o", "w">>
S_TripNextWeek ==
    <<"T", "r", "i", "p", " ", "N", "e", "x", "t", " ", "W", "e", "e", "k">>
S_TomorrowMid ==
    <<"B", "u", "y", " ", "t", "o", "m", "o", "r", "r", "o", "w", " ", "m",
      "i", "l", "k">>

QuickAddTexts ==
    {S_BuyMilkTomorrow, S_MeetingFriday, S_PaddedMeeting, S_CallMomToday,
     S_TodayOrTomorrow, S_NextWeekToday, S_AllThree, S_TripNextWeek,
     S_TomorrowMid, S_tomorrow}
QuickAddTaskInputs == [text : QuickAddTexts, tasklist_id : {S_default}]

\* quick_add_task, "Check for common date indicators": the due date and the
\* text after the if / elif / elif chain
QuickAddParse_TodayFirst(text, today) ==
    IF Contains(lower(text), S_today)
    THEN [due_date |-> Some(IsoDate(today)),
          text |-> strip(Replace(lower(text), S_today, << >>))]
    ELSE IF Contains(lower(text), S_tomorrow)
    THEN [due_date |-> Some(IsoDate(AddDays(today, 1))),
          text |-> strip(Replace(lower(text), S_tomorrow, << >>))]
    ELSE IF Contains(lower(text), S_next_week)
    THEN [due_date |-> Some(IsoDate(AddDays(today, 7))),
          text |-> strip(Replace(lower(text), S_next_week, << >>))]
    ELSE [due_date |-> None, text |-> text]
QuickAddParse_KeepsPhrase(text, today) ==
    IF Contains(lower(text), S_tomorrow)
    THEN [due_date |-> Some(IsoDate(AddDays(today, 1))), text |-> strip(lower(text))]
    ELSE IF Contains(lower(text), S_today)
    THEN [due_date |-> Some(IsoDate(today)), text |-> strip(lower(text))]
    ELSE IF Contains(lower(text), S_next_week)
    THEN [due_date |-> Some(IsoDate(AddDays(today, 7))), text |-> strip(lower(text))]
    ELSE [due_date |-> None, text |-> text]
QuickAddParse(text, today) ==
    IF Contains(lower(text), S_tomorrow)
    THEN [due_date |-> Some(IsoDate(AddDays(today, 1))),
          text |-> strip(Replace(lower(text), S_tomorrow, << >>))]
    ELSE IF Contains(lower(text), S_today)
    THEN [due_date |-> Some(IsoDate(today)),
          text |-> strip(Replace(lower(text), S_today, << >>))]
    ELSE IF Contains(lower(text), S_next_week)
    THEN [due_date |-> Some(IsoDate(AddDays(today, 7))),
          text |-> strip(Replace(lower(text), S_next_week, << >>))]
    ELSE [due_date |-> None, text |-> text]

\* quick_add_task with GoogleTasksClient.create_task
QuickAddTaskTool ==
    /\ phase = "ready"
    /\ \E input \in QuickAddTaskInputs, today \in Todays, ok \in BOOLEAN :
        LET parsed == QuickAddParse(input.text, today)
            body == CreateBody(strip(parsed.text), None, parsed.due_date)
            req == [method |-> "tasks.insert", tasklist |-> input.tasklist_id,
                    body |-> body, parent |-> None, previous |-> None]
            result == Inserted(body)
        IN  /\ remote' = IF ok THEN result ELSE remote
            /\ call' = [tool |-> "quick_add_task",
                        input |-> input,
                        today |-> today,
                        sent |-> << req >>,
                        ended |-> IF ok THEN "ok" ELSE "error",
                        output |-> IF ok
                                   THEN S_QuickAdded \o format_task(result, "detailed")
                                   ELSE S_ErrQuickAdd \o S_HttpError]
            /\ phase' = "done"
    /\ UNCHANGED <<libcPadsYear, authVars>>

\* ---- bulk_create_tasks ----

MaxBulk == 12
MaxBulkEveryPattern == 8
CreatedShown == 10
FailuresShown == 5

S_TaskNo ==
    <<"T", "a", "s", "k", " ">>
S_ColonSpace ==
    <<":", " ">>
S_BulkHeader ==
    <<"#", " ", "B", "u", "l", "k", " ", "T", "a", "s", "k", " ", "C", "r",
      "e", "a", "t", "i", "o", "n", " ", "R", "e", "s", "u", "l", "t", "s",
      "\n", "\n">>
S_BulkCreated ==
    <<"U+2705", " ", "*", "*", "S", "u", "c", "c", "e", "s", "s", "f", "u",
      "l", "l", "y", " ", "c", "r", "e", "a", "t", "e", "d", ":", "*", "*",
      " ">>
S_TasksNL ==
    <<" ", "t", "a", "s", "k", "s", "\n">>
S_CreatedTasks ==
    <<"\n", "*", "*", "C", "r", "e", "a", "t", "e", "d", " ", "t", "a", "s",
      "k", "s", ":", "*", "*", "\n">>
S_Item ==
    <<"-", " ">>
S_AndMore ==
    <<".", ".", ".", " ", "a", "n", "d", " ">>
S_More ==
    <<" ", "m", "o", "r", "e", "\n">>
S_BulkFailed ==
    <<"\n", "U+274C", " ", "*", "*", "F", "a", "i", "l", "e", "d", ":", "*",
      "*", " ">>
S_ErrBulk ==
    <<"E", "r", "r", "o", "r", " ", "i", "n", " ", "b", "u", "l", "k", " ",
      "c", "r", "e", "a", "t", "i", "o", "n", ":", " ">>

\* the lists BulkCreateTasksInput admits that the model draws from: "Task 1",
\* "Task 2", ... up to MaxBulk titles, with or without a common due date
BulkTitles(n) == [i \in 1..n |-> S_TaskNo \o Decimal(i)]
BulkCreateTasksInputs ==
    [tasks : {BulkTitles(n) : n \in 1..MaxBulk},
     tasklist_id : {S_default},
     due_date : {None, Some(FilterDate)}]

\* xs[i] for the i in 1..n with Keep(i), in order: a list built by append in
\* a for loop
Appended(xs, n, Keep(_)) ==
    LET idx == SelectSeq([i \in 1..n |-> i], Keep)
    IN  [k \in DOMAIN idx |-> xs[idx[k]]]

\* bulk_create_tasks, the for loop: the number of items whose create call is
\* issued. The except clause of the loop body ends the item, not the loop;
\* fails[i] says whether the create call of item i raises.
BulkAttempts_AbortsOnFailure(input, fails) ==
    IF \E i \in DOMAIN fails : fails[i]
    THEN CHOOSE i \in DOMAIN fails : fails[i] /\ \A j \in 1..(i - 1) : ~fails[j]
    ELSE Len(input.tasks)
BulkAttempts(input, fails) == Len(input.tasks)

\* the create requests issued and the two lists after the loop
BulkLoop(input, fails) ==
    LET n == BulkAttempts(input, fails)
        failure == [i \in 1..n |-> input.tasks[i] \o S_ColonSpace \o S_HttpError]
    IN  [sent |-> [i \in 1..n |->
                     [method |-> "tasks.insert", tasklist |-> input.tasklist_id,
                      body |-> CreateBody(input.tasks[i], None, input.due_date),
                      parent |-> None, previous |-> None]],
         created |-> Appended(input.tasks, n, LAMBDA i : ~fails[i]),
         failed |-> Appended(failure, n, LAMBDA i : fails[i])]

\* "- {x}\n" for each of the first n entries of xs, from entry i on
RECURSIVE ItemLines(_, _, _)
ItemLines(xs, n, i) ==
    IF i > n \/ i > Len(xs) THEN << >>
    ELSE S_Item \o xs[i] \o S_NL \o ItemLines(xs, n, i + 1)

\* bulk_create_tasks, the report
BulkReport(created_tasks, failed_tasks) ==
    S_BulkHeader
    \o S_BulkCreated \o Decimal(Len(created_tasks)) \o S_TasksNL
    \o (IF created_tasks # << >>
        THEN S_CreatedTasks
             \o ItemLines(created_tasks, CreatedShown, 1)
             \o (IF Len(created_tasks) > CreatedShown
                 THEN S_AndMore \o Decimal(Len(created_tasks) - CreatedShown) \o S_More
                 ELSE << >>)
        ELSE << >>)
    \o (IF failed_tasks # << >>
        THEN S_BulkFailed \o Decimal(Len(failed_tasks)) \o S_TasksNL
             \o ItemLines(failed_tasks, FailuresShown, 1)
        ELSE << >>)

\* which create calls raise: every pattern for a list of up to
\* MaxBulkEveryPattern titles; for a longer list the first k calls, or all but
\* the first k, or every second one
FailurePatterns(n) ==
    IF n <= MaxBulkEveryPattern THEN [1..n -> BOOLEAN]
    ELSE {[i \in 1..n |-> i <= k] : k \in 0..n}
         \cup {[i \in 1..n |-> i > k] : k \in 0..n}
         \cup {[i \in 1..n |-> i % 2 = r] : r \in 0..1}

\* bulk_create_tasks with GoogleTasksClient.create_task, once per title
BulkCreateTasksTool ==
    /\ phase = "ready"
    /\ \E input \in BulkCreateTasksInputs :
        \E fails \in FailurePatterns(Len(input.tasks)) :
            LET st == BulkLoop(input, fails)
                done == {i \in 1..Len(st.sent) : ~fails[i]}
                last == CHOOSE i \in done : \A j \in done : j <= i
            IN  /\ remote' = IF done = {} THEN remote
                             ELSE Inserted(st.sent[last].body)
                /\ call' = [tool |-> "bulk_create_tasks",
                            input |-> input,
                            fails |-> fails,
                            sent |-> st.sent,
                            created |-> st.created,
                            failed |-> st.failed,
                            ended |-> "ok",
                            output |-> BulkReport(st.created, st.failed)]
                /\ phase' = "done"
    /\ UNCHANGED <<libcPadsYear, authVars>>

\* ---- search_tasks ----

MaxLists == 3
SearchListsMax == 50
SearchPageSize == 100
SearchMaxResultsDefault == 20

S_Milk ==
    <<"M", "i", "l", "k">>
S_BuyMILK ==
    <<"B", "u", "y", " ", "M", "I", "L", "K">>
S_Groceries ==
    <<"G", "r", "o", "c", "e", "r", "i", "e", "s">>
S_MilkAndEggs ==
    <<"M", "i", "l", "k", " ", "a", "n", "d", " ", "e", "g", "g", "s">>
S_AskLoan ==
    <<"a", "s", "k", " ", "a", "b", "o", "u", "t", " ", "t", "h", "e", " ",
      "l", "o", "a", "n">>
S_OatMilk ==
    <<"o", "a", "t", " ", "m", "i", "l", "k">>
S_t3 ==
    <<"t", "3">>
S_t4 ==
    <<"t", "4">>
S_ListId ==
    <<"l", "i", "s", "t", "-">>
S_ListTitle ==
    <<"P", "r", "o", "j", "e", "c", "t", " ">>
S_UnknownList ==
    <<"U", "n", "k", "n", "o", "w", "n", " ", "L", "i", "s", "t">>
S_NoTasksFoundMatching ==
    <<"N", "o", " ", "t", "a", "s", "k", "s", " ", "f", "o", "u", "n", "d",
      " ", "m", "a", "t", "c", "h", "i", "n", "g", " ", "'">>
S_QuoteDot ==
    <<"'", ".">>
S_SearchResultsFor ==
    <<"#", " ", "S", "e", "a", "r", "c", "h", " ", "R", "e", "s", "u", "l",
      "t", "s", " ", "f", "o", "r", " ", "'">>
S_QuoteNLNL ==
    <<"'", "\n", "\n">>
S_Found ==
    <<"F", "o", "u", "n", "d", " ">>
S_MatchingTasks ==
    <<" ", "m", "a", "t", "c", "h", "i", "n", "g", " ", "t", "a", "s", "k",
      "(", "s", ")", "\n", "\n">>
S_ListLabel ==
    <<"*", "*", "L", "i", "s", "t", ":", "*", "*", " ">>
S_ErrSearching ==
    <<"E", "r", "r", "o", "r", " ", "s", "e", "a", "r", "c", "h", "i", "n",
      "g", " ", "t", "a", "s", "k", "s", ":", " ">>

\* the task records the remote service returns in the model: one matching the
\* query in its title, one in its notes, one not at all, one without a title
TaskTitled ==
    ("id" :> S_t1) @@ ("title" :> S_BuyMILK) @@ ("status" :> S_needsAction)
TaskNoted ==
    ("id" :> S_t2) @@ ("title" :> S_Groceries) @@ ("notes" :> S_MilkAndEggs)
    @@ ("status" :> S_completed) @@ ("due" :> StartOfDay(FilterDate))
TaskOther ==
    ("id" :> S_t3) @@ ("title" :> S_CallBank) @@ ("notes" :> S_AskLoan)
    @@ ("status" :> S_needsAction)
TaskUntitled ==
    ("id" :> S_t4) @@ ("notes" :> S_OatMilk) @@ ("status" :> S_needsAction)

\* what tasks().list returns as 'items' for one list
ItemChoices ==
    {<< >>, <<TaskOther, TaskNoted>>, <<TaskTitled, TaskUntitled>>}

\* what tasklists().list returns as 'items': up to MaxLists lists, list k
\* with id "list-k" and title "Project k"
TaskList(k, items) ==
    [id |-> S_ListId \o Decimal(k), title |-> S_ListTitle \o Decimal(k),
     items |-> items]
Accounts ==
    UNION {{[k \in 1..n |-> TaskList(k, choice[k])] : choice \in [1..n -> ItemChoices]} :
           n \in 0..MaxLists}

\* which of the n list fetches raise: none, one of them, or all
FetchFailures(n) ==
    {[k \in 1..n |-> FALSE], [k \in 1..n |-> TRUE]}
    \cup {[k \in 1..n |-> k = f] : f \in 1..n}

SearchTasksInputs ==
    [query : {S_Milk},
     include_completed : BOOLEAN,
     max_results : {1, 2, SearchMaxResultsDefault},
     response_format : ResponseFormats]

\* search_tasks: "query_lower in title or query_lower in notes"
Matches_TitleOnly(task, query_lower) ==
    Contains(lower(Get(task, "title", << >>)), query_lower)
Matches(task, query_lower) ==
    \/ Contains(lower(Get(task, "title", << >>)), query_lower)
    \/ Contains(lower(Get(task, "notes", << >>)), query_lower)

\* search_tasks: the two "if len(matching_tasks) >= input.max_results: break"
InnerBreak_Missing(matching_tasks, max_results) == FALSE
InnerBreak(matching_tasks, max_results) == Len(matching_tasks) >= max_results
OuterBreak_Missing(matching_tasks, max_results) == FALSE
OuterBreak(matching_tasks, max_results) == Len(matching_tasks) >= max_results

\* search_tasks: whether an exception of one list's fetch leaves the for loop
\* (the try of line 929 is inside the loop and its except clause continues)
FetchFailureEndsSearch_Propagates(fails, k) == fails[k]
FetchFailureEndsSearch(fails, k) == FALSE

\* the request search_tasks makes for one list
SearchListRequest(task_list, input) ==
    [method |-> "tasks.list",
     params |-> ListParams(task_list.id,
                    [max_results |-> SearchPageSize,
                     show_completed |-> input.include_completed,
                     show_deleted |-> FALSE, show_hidden |-> FALSE,
                     due_min |-> None, due_max |-> None,
                     completed_min |-> None, completed_max |-> None,
                     updated_min |-> None, page_token |-> None])]

\* search_tasks, the inner loop over one list's tasks: the state after the
\* first j tasks of list k, entered in state st
RECURSIVE SearchInner(_, _, _, _, _)
SearchInner(task_list, k, input, st, j) ==
    IF j = 0 THEN st
    ELSE LET prev == SearchInner(task_list, k, input, st, j - 1)
             task == task_list.items[j]
             examined == Append(prev.examined, <<k, j>>)
             matching == Append(prev.matching,
                                Put(task, "_list_title", task_list.title))
         IN  IF prev.broke THEN prev
             ELSE IF Matches(task, lower(input.query))
             THEN [prev EXCEPT !.examined = examined,
                               !.matching = matching,
                               !.found = Append(prev.found, <<k, j>>),
                               !.broke = InnerBreak(matching, input.max_results)]
             ELSE [prev EXCEPT !.examined = examined]

\* search_tasks, the outer loop: the state after the first k lists
RECURSIVE SearchOuter(_, _, _, _)
SearchOuter(task_lists, fails, input, k) ==
    IF k = 0
    THEN [sent |-> << >>, examined |-> << >>, found |-> << >>, matching |-> << >>,
          broke |-> FALSE, stopped |-> FALSE, raised |-> FALSE]
    ELSE LET prev == SearchOuter(task_lists, fails, input, k - 1)
             fetched == [prev EXCEPT !.sent = Append(prev.sent,
                                          SearchListRequest(task_lists[k], input)),
                                     !.broke = FALSE]
             after == SearchInner(task_lists[k], k, input, fetched,
                                  Len(task_lists[k].items))
         IN  IF prev.stopped \/ prev.raised THEN prev
             ELSE IF fails[k]
             THEN [fetched EXCEPT !.raised = FetchFailureEndsSearch(fails, k)]
             ELSE [after EXCEPT !.stopped =
                                   OuterBreak(after.matching, input.max_results)]

\* search_tasks, "Format results" for a format other than JSON
RECURSIVE SearchBlocks(_, _, _)
SearchBlocks(matching_tasks, format_type, i) ==
    IF i > Len(matching_tasks) THEN << >>
    ELSE S_ListLabel \o Get(matching_tasks[i], "_list_title", S_UnknownList) \o S_NL
         \o format_task(Pop(matching_tasks[i], "_list_title"), format_type)
         \o S_Separator
         \o SearchBlocks(matching_tasks, format_type, i + 1)

SearchOutput(input, matching_tasks) ==
    IF matching_tasks = << >>
    THEN S_NoTasksFoundMatching \o input.query \o S_QuoteDot
    ELSE IF input.response_format = "json" THEN JsonList(matching_tasks)
    ELSE S_SearchResultsFor \o input.query \o S_QuoteNLNL
         \o S_Found \o Decimal(Len(matching_tasks)) \o S_MatchingTasks
         \o SearchBlocks(matching_tasks, input.response_format, 1)

\* search_tasks with GoogleTasksClient.list_tasklists and list_tasks
SearchTasksTool ==
    /\ phase = "ready"
    /\ \E input \in SearchTasksInputs, listsOk \in BOOLEAN :
        \E task_lists \in IF listsOk THEN Accounts ELSE {<< >>} :
            \E fails \in FetchFailures(Len(task_lists)) :
                LET listsReq == [method |-> "tasklists.list",
                                 maxResults |-> SearchListsMax, pageToken |-> None]
                    st == SearchOuter(task_lists, fails, input, Len(task_lists))
                    error == ~listsOk \/ st.raised
                IN  /\ call' = [tool |-> "search_tasks",
                                input |-> input,
                                listsOk |-> listsOk,
                                task_lists |-> task_lists,
                                fails |-> fails,
                                sent |-> << listsReq >> \o st.sent,
                                examined |-> st.examined,
                                found |-> st.found,
                                matching |-> st.matching,
                                ended |-> IF error THEN "error" ELSE "ok",
                                output |-> IF error THEN S_ErrSearching \o S_HttpError
                                           ELSE SearchOutput(input, st.matching)]
                    /\ phase' = "done"
    /\ UNCHANGED <<libcPadsYear, remote, authVars>>

\* ---- get_task_summary ----

SummaryPageSize == 50
PendingShown == 20
CompletedShown == 10
ManyTasks == 21
ManyCompleted == 11

S_TodaysTasks ==
    <<"T", "o", "d", "a", "y", "'", "s", " ", "T", "a", "s", "k", "s">>
S_TomorrowsTasks ==
    <<"T", "o", "m", "o", "r", "r", "o", "w", "'", "s", " ", "T", "a", "s",
      "k", "s">>
S_WeeksTasks ==
    <<"T", "h", "i", "s", " ", "W", "e", "e", "k", "'", "s", " ", "T", "a",
      "s", "k", "s">>
S_OverdueTasks ==
    <<"O", "v", "e", "r", "d", "u", "e", " ", "T", "a", "s", "k", "s">>
S_AllTasks ==
    <<"A", "l", "l", " ", "T", "a", "s", "k", "s">>
S_NoTasksFor ==
    <<"N", "o", " ", "t", "a", "s", "k", "s", " ", "f", "o", "u", "n", "d",
      " ", "f", "o", "r", " ">>
S_Dot ==
    <<".">>
S_SummaryLabel ==
    <<"*", "*", "S", "u", "m", "m", "a", "r", "y", ":", "*", "*", " ">>
S_PendingCount ==
    <<" ", "p", "e", "n", "d", "i", "n", "g">>
S_CommaSpace ==
    <<",", " ">>
S_CompletedCount ==
    <<" ", "c", "o", "m", "p", "l", "e", "t", "e", "d">>
S_PendingHeader ==
    <<"#", "#", " ", "U+23F3", " ", "P", "e", "n", "d", "i", "n", "g", " ",
      "T", "a", "s", "k", "s", "\n", "\n">>
S_CompletedHeader ==
    <<"\n", "#", "#", " ", "U+2705", " ", "C", "o", "m", "p", "l", "e", "t",
      "e", "d", " ", "T", "a", "s", "k", "s", "\n", "\n">>
S_MoreNote ==
    <<"\n", "*", "*", "N", "o", "t", "e", ":", "*", "*", " ", "M", "o", "r",
      "e", " ", "t", "a", "s", "k", "s", " ", "a", "v", "a", "i", "l", "a",
      "b", "l", "e", ".", " ", "T", "h", "i", "s", " ", "i", "s", " ", "a",
      " ", "s", "u", "m", "m", "a", "r", "y", " ", "o", "f", " ", "t", "h",
      "e", " ", "f", "i", "r", "s", "t", " ">>
S_TasksDot ==
    <<" ", "t", "a", "s", "k", "s", ".">>
S_ErrSummary ==
    <<"E", "r", "r", "o", "r", " ", "g", "e", "t", "t", "i", "n", "g", " ",
      "t", "a", "s", "k", " ", "s", "u", "m", "m", "a", "r", "y", ":", " ">>

TimeRanges == {"today", "tomorrow", "week", "overdue", "all"}
GetTaskSummaryInputs ==
    [time_range : TimeRanges,
     include_completed : BOOLEAN,
     response_format : ResponseFormats]

\* a page of ManyTasks pending and ManyCompleted completed tasks, the completed
\* ones at the even places from the second on; the first record has no status
NumberedTask(i, status) ==
    ("id" :> << "t" >> \o Decimal(i)) @@ ("title" :> S_TaskNo \o Decimal(i))
    @@ ("status" :> status)
MixedTasks ==
    [i \in 1..(ManyTasks + ManyCompleted) |->
        IF i = 1 THEN ("id" :> S_t1) @@ ("title" :> S_BuyMilk)
        ELSE IF i % 2 = 0 /\ i <= 2 * ManyCompleted THEN NumberedTask(i, S_completed)
        ELSE NumberedTask(i, S_needsAction)]

\* what tasks().list returns as 'items' in the model: nothing, a pending and
\* a completed task, more pending tasks than the summary shows, or more of
\* both kinds than it shows
SummaryItemChoices ==
    {<< >>, <<TaskTitled, TaskNoted>>, [i \in 1..ManyTasks |-> TaskTitled], MixedTasks}

\* get_task_summary, "Set date filters based on time range": the filters dict
\* and the title
SummaryFilters_OverdueIncludesToday(time_range, today) ==
    CASE time_range = "today" ->
            [filters |-> ("due_min" :> IsoDate(today)) @@ ("due_max" :> IsoDate(today)),
             title |-> S_TodaysTasks]
      [] time_range = "tomorrow" ->
            [filters |-> ("due_min" :> IsoDate(AddDays(today, 1)))
                         @@ ("due_max" :> IsoDate(AddDays(today, 1))),
             title |-> S_TomorrowsTasks]
      [] time_range = "week" ->
            [filters |-> ("due_min" :> IsoDate(today))
                         @@ ("due_max" :> IsoDate(AddDays(today, 7))),
             title |-> S_WeeksTasks]
      [] time_range = "overdue" ->
            [filters |-> ("due_max" :> IsoDate(today)),
             title |-> S_OverdueTasks]
      [] OTHER -> [filters |-> EmptyDict, title |-> S_AllTasks]
SummaryFilters(time_range, today) ==
    CASE time_range = "today" ->
            [filters |-> ("due_min" :> IsoDate(today)) @@ ("due_max" :> IsoDate(today)),
             title |-> S_TodaysTasks]
      [] time_range = "tomorrow" ->
            [filters |-> ("due_min" :> IsoDate(AddDays(today, 1)))
                         @@ ("due_max" :> IsoDate(AddDays(today, 1))),
             title |-> S_TomorrowsTasks]
      [] time_range = "week" ->
            [filters |-> ("due_min" :> IsoDate(today))
                         @@ ("due_max" :> IsoDate(AddDays(today, 7))),
             title |-> S_WeeksTasks]
      [] time_range = "overdue" ->
            [filters |-> ("due_max" :> IsoDate(AddDays(today, -1))),
             title |-> S_OverdueTasks]
      [] OTHER -> [filters |-> EmptyDict, title |-> S_AllTasks]

\* the keyword arguments of the list_tasks call of get_task_summary
SummaryKwargs(input, filters) ==
    [max_results |-> SummaryPageSize,
     show_completed |-> input.include_completed,
     show_deleted |-> FALSE, show_hidden |-> FALSE,
     due_min |-> IF "due_min" \in DOMAIN filters THEN Some(filters["due_min"]) ELSE None,
     due_max |-> IF "due_max" \in DOMAIN filters THEN Some(filters["due_max"]) ELSE None,
     completed_min |-> None, completed_max |-> None,
     updated_min |-> None, page_token |-> None]

\* format_task(task, format) + "\n" for each of the first n tasks, from task i on
RECURSIVE SummaryLines_Uncapped(_, _, _, _)
SummaryLines_Uncapped(tasks, n, format_type, i) ==
    IF i > Len(tasks) THEN << >>
    ELSE format_task(tasks[i], format_type) \o S_NL
         \o SummaryLines_Uncapped(tasks, n, format_type, i + 1)
RECURSIVE SummaryLines(_, _, _, _)
SummaryLines(tasks, n, format_type, i) ==
    IF i > n \/ i > Len(tasks) THEN << >>
    ELSE format_task(tasks[i], format_type) \o S_NL
         \o SummaryLines(tasks, n, format_type, i + 1)

IsCompleted(t) == Get(t, "status", << >>) = S_completed
IsPending(t) == ~IsCompleted(t)

\* get_task_summary, the text for the tasks returned
SummaryOutput(input, title, tasks, nextPageToken) ==
    IF tasks = << >> THEN S_NoTasksFor \o lower(title) \o S_Dot
    ELSE
    LET pending_tasks == SelectSeq(tasks, IsPending)
        completed_tasks == SelectSeq(tasks, IsCompleted)
    IN  S_H1 \o title \o S_NLNL
        \o S_SummaryLabel \o Decimal(Len(pending_tasks)) \o S_PendingCount
        \o (IF input.include_completed
            THEN S_CommaSpace \o Decimal(Len(completed_tasks)) \o S_CompletedCount
            ELSE << >>)
        \o S_NLNL
        \o (IF pending_tasks # << >>
            THEN S_PendingHeader
                 \o SummaryLines(pending_tasks, PendingShown, input.response_format, 1)
            ELSE << >>)
        \o (IF input.include_completed /\ completed_tasks # << >>
            THEN S_CompletedHeader
                 \o SummaryLines(completed_tasks, CompletedShown,
                                 input.response_format, 1)
            ELSE << >>)
        \o (IF Truthy(nextPageToken)
            THEN S_MoreNote \o Decimal(Len(tasks)) \o S_TasksDot
            ELSE << >>)

\* get_task_summary with GoogleTasksClient.list_tasks
GetTaskSummaryTool ==
    /\ phase = "ready"
    /\ \E input \in GetTaskSummaryInputs, today \in Todays, ok \in BOOLEAN :
        \E tasks \in IF ok THEN SummaryItemChoices ELSE {<< >>},
           nextPageToken \in IF ok THEN {None, Some(S_tok)} ELSE {None} :
            LET chosen == SummaryFilters(input.time_range, today)
                req == [method |-> "tasks.list",
                        params |-> ListParams(S_default,
                                              SummaryKwargs(input, chosen.filters))]
            IN  /\ call' = [tool |-> "get_task_summary",
                            input |-> input,
                            today |-> today,
                            filters |-> chosen.filters,
                            tasks |-> tasks,
                            nextPageToken |-> nextPageToken,
                            sent |-> << req >>,
                            ended |-> IF ok THEN "ok" ELSE "error",
                            output |-> IF ok
                                       THEN SummaryOutput(input, chosen.title, tasks,
                                                          nextPageToken)
                                       ELSE S_ErrSummary \o S_HttpError]
                /\ phase' = "done"
    /\ UNCHANGED <<libcPadsYear, remote, authVars>>

\* ---- the tool surface: validation, Gateway and Renderer calls, and the
\* ---- try / except of every tool ----

Tools ==
    {"create_task_list", "list_task_lists", "update_task_list", "delete_task_list",
     "create_task", "list_tasks", "update_task", "delete_task", "move_task",
     "clear_completed_tasks", "quick_add_task", "bulk_create_tasks", "search_tasks",
     "get_task_summary"}

S_ErrCreatingList ==
    <<"E", "r", "r", "o", "r", " ", "c", "r", "e", "a", "t", "i", "n", "g",
      " ", "t", "a", "s", "k", " ", "l", "i", "s", "t", ":", " ">>
S_ErrListingLists ==
    <<"E", "r", "r", "o", "r", " ", "l", "i", "s", "t", "i", "n", "g", " ",
      "t", "a", "s", "k", " ", "l", "i", "s", "t", "s", ":", " ">>
S_ErrUpdatingList ==
    <<"E", "r", "r", "o", "r", " ", "u", "p", "d", "a", "t", "i", "n", "g",
      " ", "t", "a", "s", "k", " ", "l", "i", "s", "t", ":", " ">>
S_ErrDeletingList ==
    <<"E", "r", "r", "o", "r", " ", "d", "e", "l", "e", "t", "i", "n", "g",
      " ", "t", "a", "s", "k", " ", "l", "i", "s", "t", ":", " ">>
S_ErrDeleting ==
    <<"E", "r", "r", "o", "r", " ", "d", "e", "l", "e", "t", "i", "n", "g",
      " ", "t", "a", "s", "k", ":", " ">>
S_ErrMoving ==
    <<"E", "r", "r", "o", "r", " ", "m", "o", "v", "i", "n", "g", " ", "t",
      "a", "s", "k", ":", " ">>
S_ErrClearing ==
    <<"E", "r", "r", "o", "r", " ", "c", "l", "e", "a", "r", "i", "n", "g",
      " ", "c", "o", "m", "p", "l", "e", "t", "e", "d", " ", "t", "a", "s",
      "k", "s", ":", " ">>
S_CheckAuth ==
    <<".", " ", "P", "l", "e", "a", "s", "e", " ", "c", "h", "e", "c", "k",
      " ", "y", "o", "u", "r", " ", "a", "u", "t", "h", "e", "n", "t", "i",
      "c", "a", "t", "i", "o", "n", " ", "a", "n", "d", " ", "t", "r", "y",
      " ", "a", "g", "a", "i", "n", ".">>
S_VerifyListId ==
    <<".", " ", "P", "l", "e", "a", "s", "e", " ", "v", "e", "r", "i", "f",
      "y", " ", "t", "h", "e", " ", "t", "a", "s", "k", " ", "l", "i", "s",
      "t", " ", "I", "D", " ", "a", "n", "d", " ", "t", "r", "y", " ", "a",
      "g", "a", "i", "n", ".">>
S_VerifyTaskIds ==
    <<".", " ", "P", "l", "e", "a", "s", "e", " ", "v", "e", "r", "i", "f",
      "y", " ", "t", "h", "e", " ", "t", "a", "s", "k", " ", "I", "D", "s",
      " ", "a", "n", "d", " ", "t", "r", "y", " ", "a", "g", "a", "i", "n",
      ".">>
S_KeyError ==
    <<"'", "i", "d", "'">>
S_ValueError ==
    <<"I", "n", "v", "a", "l", "i", "d", " ", "i", "s", "o", "f", "o", "r",
      "m", "a", "t", " ", "s", "t", "r", "i", "n", "g">>

\* the text each tool's "except Exception as e" returns before and after str(e)
ErrorPrefix(tool) ==
    CASE tool = "create_task_list" -> S_ErrCreatingList
      [] tool = "list_task_lists" -> S_ErrListingLists
      [] tool = "update_task_list" -> S_ErrUpdatingList
      [] tool = "delete_task_list" -> S_ErrDeletingList
      [] tool = "create_task" -> S_ErrCreating
      [] tool = "list_tasks" -> S_ErrListing
      [] tool = "update_task" -> S_ErrUpdating
      [] tool = "delete_task" -> S_ErrDeleting
      [] tool = "move_task" -> S_ErrMoving
      [] tool = "clear_completed_tasks" -> S_ErrClearing
      [] tool = "quick_add_task" -> S_ErrQuickAdd
      [] tool = "bulk_create_tasks" -> S_ErrBulk
      [] tool = "search_tasks" -> S_ErrSearching
      [] tool = "get_task_summary" -> S_ErrSummary
ErrorAdvice(tool) ==
    CASE tool \in {"create_task_list", "list_task_lists"} -> S_CheckAuth
      [] tool \in {"update_task_list", "delete_task_list", "clear_completed_tasks"} ->
            S_VerifyListId
      [] tool = "create_task" -> S_CheckInput
      [] tool = "list_tasks" -> S_CheckFilters
      [] tool \in {"update_task", "delete_task"} -> S_VerifyTaskId
      [] tool = "move_task" -> S_VerifyTaskIds
      [] OTHER -> << >>

\* the Gateway and Renderer calls of each tool, in the order it makes them
\* (bulk_create_tasks with two titles, search_tasks with one list)
GatewayCall(name, remoteCalls) == [layer |-> "gateway", name |-> name, remote |-> remoteCalls]
RendererCall(name) == [layer |-> "renderer", name |-> name, remote |-> 0]
ToolSteps(tool) ==
    CASE tool = "create_task_list" ->
            << GatewayCall("create_tasklist", 1), RendererCall("format_task_list") >>
      [] tool = "list_task_lists" ->
            << GatewayCall("list_tasklists", 1), RendererCall("format_task_list") >>
      [] tool = "update_task_list" ->
            << GatewayCall("update_tasklist", 2), RendererCall("format_task_list") >>
      [] tool = "delete_task_list" -> << GatewayCall("delete_tasklist", 1) >>
      [] tool = "create_task" ->
            << GatewayCall("create_task", 1), RendererCall("format_task") >>
      [] tool = "list_tasks" ->
            << GatewayCall("list_tasks", 1), RendererCall("format_multiple_tasks") >>
      [] tool = "update_task" ->
            << GatewayCall("update_task", 2), RendererCall("format_task") >>
      [] tool = "delete_task" -> << GatewayCall("delete_task", 1) >>
      [] tool = "move_task" ->
            << GatewayCall("move_task", 1), RendererCall("format_task") >>
      [] tool = "clear_completed_tasks" -> << GatewayCall("clear_completed", 1) >>
      [] tool = "quick_add_task" ->
            << GatewayCall("create_task", 1), RendererCall("format_task") >>
      [] tool = "bulk_create_tasks" ->
            << GatewayCall("create_task", 1), GatewayCall("create_task", 1) >>
      [] tool = "search_tasks" ->
            << GatewayCall("list_tasklists", 1), GatewayCall("list_tasks", 1),
               RendererCall("format_task") >>
      [] tool = "get_task_summary" ->
            << GatewayCall("list_tasks", 1), RendererCall("format_task") >>

\* the try statement around step i of a tool: "item" is the try inside the
\* loop of bulk_create_tasks and search_tasks, whose except clause goes on
\* with the next item; "tool" is the try around the whole body, whose except
\* clause returns the error text; "none" would be a call outside every try
Handler_RendererUnguarded(tool, i) ==
    IF ToolSteps(tool)[i].layer = "renderer" THEN "none"
    ELSE IF tool = "bulk_create_tasks" THEN "item"
    ELSE IF tool = "search_tasks" /\ i = 2 THEN "item"
    ELSE "tool"
Handler(tool, i) ==
    IF tool = "bulk_create_tasks" THEN "item"
    ELSE IF tool = "search_tasks" /\ i = 2 THEN "item"
    ELSE "tool"

\* what a Gateway or Renderer call can raise: HttpError from the remote call,
\* KeyError or ValueError from the handling of a record; all of them are
\* subclasses of Exception, the class every except clause of the tools names
Raisable == {"HttpError", "KeyError", "ValueError"}
ExceptionText(exc) ==
    CASE exc = "HttpError" -> S_HttpError
      [] exc = "KeyError" -> S_KeyError
      [] exc = "ValueError" -> S_ValueError

\* the constraints the input model of each tool declares, by Field(...)
\* arguments, by type, by validator or in the field description
DeclaredConstraints(tool) ==
    CASE tool \in {"create_task_list", "update_task_list"} -> {"title_length"}
      [] tool = "list_task_lists" -> {"max_results_range", "response_format_member"}
      [] tool = "create_task" -> {"title_length", "notes_length", "due_date_iso"}
      [] tool = "list_tasks" ->
            {"max_results_range", "response_format_member", "due_date_iso"}
      [] tool = "update_task" ->
            {"title_length", "notes_length", "status_member", "due_date_iso"}
      [] tool = "bulk_create_tasks" -> {"tasks_count", "due_date_iso"}
      [] tool = "search_tasks" ->
            {"query_length", "max_results_range", "response_format_member"}
      [] tool = "get_task_summary" -> {"time_range_member", "response_format_member"}
      [] OTHER -> {}

\* the constraints the input model checks when it is built: those of Field
\* arguments and types, and the due date of CreateTaskInput, the only model
\* with a validator
EnforcedConstraints_EveryDueDate(tool) == DeclaredConstraints(tool)
EnforcedConstraints(tool) ==
    IF tool = "create_task" THEN DeclaredConstraints(tool)
    ELSE DeclaredConstraints(tool) \ {"due_date_iso"}

\* the remote calls made by the first n steps
RECURSIVE RemoteCalls(_, _)
RemoteCalls(steps, n) ==
    IF n = 0 THEN 0 ELSE RemoteCalls(steps, n - 1) + steps[n].remote

\* one invocation of a tool: the input model is built (and rejects the input
\* if it breaks a constraint the model checks), then the body runs its steps;
\* raises[i] says whether step i raises
InvokeTool ==
    /\ phase = "ready"
    /\ \E tool \in Tools, exc \in Raisable :
        \E violates \in {"none"} \cup DeclaredConstraints(tool),
           raises \in [DOMAIN ToolSteps(tool) -> BOOLEAN] :
            LET steps == ToolSteps(tool)
                rejected == violates \in EnforcedConstraints(tool)
                fatal == {i \in DOMAIN steps : raises[i] /\ Handler(tool, i) # "item"}
                stop == IF fatal = {} THEN Len(steps)
                        ELSE CHOOSE i \in fatal : \A j \in fatal : i <= j
                reached == IF rejected THEN 0 ELSE stop
                calls == [i \in 1..reached |-> steps[i]]
                ended == IF rejected THEN "rejected"
                         ELSE IF fatal = {} THEN "ok"
                         ELSE IF Handler(tool, stop) = "tool" THEN "error"
                         ELSE "escaped"
            IN  /\ call' = [tool |-> "invoke",
                            name |-> tool,
                            violates |-> violates,
                            raises |-> raises,
                            exc |-> exc,
                            calls |-> calls,
                            remoteCalls |-> RemoteCalls(steps, reached),
                            ended |-> ended,
                            returns |-> CASE ended = "ok" -> "result text"
                                          [] ended = "error" -> "error text"
                                          [] OTHER -> "exception",
                            output |-> IF ended = "error"
                                       THEN Some(ErrorPrefix(tool) \o ExceptionText(exc)
                                                 \o ErrorAdvice(tool))
                                       ELSE None]
                /\ phase' = "done"
    /\ UNCHANGED <<libcPadsYear, remote, authVars>>


\* ---- list_tasks on a page of task records ----

\* the inputs ListTasksInput admits that the model draws from: no date filter,
\* every response format, with and without a page token
ListPageInputs ==
    [tasklist_id : {S_default},
     max_results : {MaxResultsDefault},
     show_completed : {TRUE},
     show_deleted : {FALSE},
     show_hidden : {FALSE},
     due_min : {None},
     due_max : {None},
     completed_min : {None},
     completed_max : {None},
     updated_min : {None},
     page_token : {None, Some(S_tok)},
     response_format : ResponseFormats]

\* list_tasks (tool) with GoogleTasksClient.list_tasks, the remote service
\* answering with a page of up to MaxTasks sample tasks and, or not, a token
\* for the next page
ListTasksPage ==
    /\ phase = "ready"
    /\ \E input \in ListPageInputs, ok \in BOOLEAN :
        \E picks \in IF ok THEN TaskPicks ELSE {<< >>},
           nextPageToken \in IF ok THEN {None, Some(S_tok)} ELSE {None} :
            LET req == [method |-> "tasks.list",
                        params |-> ListParams(input.tasklist_id, input)]
            IN  /\ call' = [tool |-> "list_tasks",
                            input |-> input,
                            sent |-> << req >>,
                            tasks |-> picks,
                            nextPageToken |-> nextPageToken,
                            ended |-> IF ok THEN "ok" ELSE "error",
                            output |-> IF ~ok
                                       THEN S_ErrListing \o S_HttpError \o S_CheckFilters
                                       ELSE ListTasksOutput(input, TasksOf(picks),
                                                            nextPageToken)]
                /\ phase' = "done"
    /\ UNCHANGED <<libcPadsYear, remote, authVars>>

\* ---- update_task invocations in flight at the same time ----

MaxInvocations == 2
MaxServers == 2

\* Every server process has its own tasks_client and its own event loop; all
\* of them talk to the same remote service.
Invocations == 1..MaxInvocations
Servers == 1..MaxServers

\* the update requests the model draws from: each changes one field
ConcurrentInputs ==
    {in \in UpdateTaskInputs :
        \/ in.title # None /\ in.notes = None /\ in.status = None /\ in.due_date = None
        \/ in.title = None /\ in.notes = Some(S_Two) /\ in.status = None
             /\ in.due_date = None
        \/ in.title = None /\ in.notes = None /\ in.status = Some(S_completed)
             /\ in.due_date = None
        \/ in.title = None /\ in.notes = None /\ in.status = None
             /\ in.due_date = Some(S_clear)}

\* an invocation: where it is in update_task, the record it fetched, the body
\* it wrote, and the invocations whose write it has not seen (they wrote
\* between its fetch and its write)
NotInvoked ==
    [pc |-> "idle", server |-> 0, input |-> << >>, fetched |-> None, body |-> None,
     missed |-> {}, output |-> None]

\* GoogleTasksClient.update_task has no await between tasks().get and
\* tasks().update, and both execute() calls block: the event loop of a server
\* runs an invocation from its fetch to its write before it runs another.
\* Nothing orders the invocations of different servers.
MayFetch_Locked(inv, i) == \A j \in DOMAIN inv : inv[j].pc # "fetched"
MayFetch(inv, i) ==
    \A j \in DOMAIN inv \ {i} : inv[j].pc = "fetched" => inv[j].server # inv[i].server

\* the record the updates are applied to and that is sent as the body of
\* tasks().update: the one fetched at the start of update_task
WriteBase_Refetched(fetched, current) == current
WriteBase(fetched, current) == fetched

\* a call of update_task arrives at a server
UpdateInvoked ==
    /\ phase = "concurrent"
    /\ \E i \in Invocations, s \in Servers, input \in ConcurrentInputs :
        /\ call.inv[i].pc = "idle"
        /\ \A j \in 1..(i - 1) : call.inv[j].pc # "idle"
        /\ call' = [call EXCEPT !.inv[i] =
                        [NotInvoked EXCEPT !.pc = "start", !.server = s,
                                           !.input = input]]
    /\ UNCHANGED <<libcPadsYear, remote, phase, authVars>>

\* "Get current task": tasks().get(...).execute(); if it raises, the tool
\* returns its error text
UpdateFetched ==
    /\ phase = "concurrent"
    /\ \E i \in Invocations, fetchOk \in BOOLEAN :
        /\ call.inv[i].pc = "start"
        /\ MayFetch(call.inv, i)
        /\ call' = [call EXCEPT !.inv[i] =
                        IF fetchOk
                        THEN [@ EXCEPT !.pc = "fetched", !.fetched = Some(remote)]
                        ELSE [@ EXCEPT !.pc = "failed",
                                       !.output = Some(S_ErrUpdating \o S_HttpError
                                                       \o S_VerifyTaskId)]]
    /\ UNCHANGED <<libcPadsYear, remote, phase, authVars>>

\* "Apply updates" and tasks().update(..., body=task).execute(), then the
\* text of the tool; the other invocations that have fetched and not yet
\* written miss this write
UpdateWritten ==
    /\ phase = "concurrent"
    /\ \E i \in Invocations, writeOk \in BOOLEAN :
        LET me == call.inv[i]
            body == MergeUpdates(WriteBase(me.fetched[1], remote), UpdatesOf(me.input))
            status_msg == IF me.input.status = Some(S_completed)
                          THEN S_CompletedMsg ELSE S_updated
        IN  /\ me.pc = "fetched"
            /\ remote' = IF writeOk THEN body ELSE remote
            /\ call' = [call EXCEPT !.inv =
                            [j \in DOMAIN call.inv |->
                                IF j = i
                                THEN IF writeOk
                                     THEN [me EXCEPT !.pc = "done", !.body = Some(body),
                                                     !.output = Some(
                                                         S_Task \o status_msg
                                                         \o S_Successfully
                                                         \o format_task(body, "detailed"))]
                                     ELSE [me EXCEPT !.pc = "failed",
                                                     !.output = Some(
                                                         S_ErrUpdating \o S_HttpError
                                                         \o S_VerifyTaskId)]
                                ELSE IF writeOk /\ call.inv[j].pc = "fetched"
                                     THEN [call.inv[j] EXCEPT !.missed = @ \cup {i}]
                                     ELSE call.inv[j]],
                                      !.order = IF writeOk THEN Append(@, i) ELSE @]
    /\ UNCHANGED <<libcPadsYear, phase, authVars>>

\* ---- the operations of the gateway and their remote calls ----

S_Errands ==
    <<"E", "r", "r", "a", "n", "d", "s">>
S_Home ==
    <<"H", "o", "m", "e">>
S_list1 ==
    <<"l", "i", "s", "t", "-", "1">>

GatewayOperations ==
    {"create_tasklist", "list_tasklists", "update_tasklist", "delete_tasklist",
     "create_task", "list_tasks", "update_task", "delete_task", "move_task",
     "clear_completed"}

\* the ...execute() calls in the body of each operation, in order
RemoteCallsOf(op) ==
    CASE op = "create_tasklist" -> << "tasklists.insert" >>
      [] op = "list_tasklists" -> << "tasklists.list" >>
      [] op = "update_tasklist" -> << "tasklists.get", "tasklists.update" >>
      [] op = "delete_tasklist" -> << "tasklists.delete" >>
      [] op = "create_task" -> << "tasks.insert" >>
      [] op = "list_tasks" -> << "tasks.list" >>
      [] op = "update_task" -> << "tasks.get", "tasks.update" >>
      [] op = "delete_task" -> << "tasks.delete" >>
      [] op = "move_task" -> << "tasks.move" >>
      [] op = "clear_completed" -> << "tasks.clear" >>

\* the arguments the model calls each operation with
GatewayArguments(op) ==
    CASE op \in {"create_tasklist", "update_tasklist"} -> {[title |-> S_Home]}
      [] op = "create_task" ->
            {[title |-> S_CallBank, notes |-> None, due |-> Some(FilterDate)]}
      [] op = "update_task" -> {[updates |-> UpdatesOf(in)] : in \in ConcurrentInputs}
      [] op = "move_task" -> {[parent |-> None], [parent |-> Some(S_p1)]}
      [] OTHER -> {[none |-> TRUE]}

\* What the remote service holds: a task list and a task in it (an empty dict
\* once deleted), and what a successful operation leaves there.
StoredList == ("id" :> S_list1) @@ ("title" :> S_Errands)
AfterOperation(op, args, store) ==
    CASE op = "create_tasklist" ->
            [store EXCEPT !.tasklist = Put(Put(EmptyDict, "title", args.title),
                                           "id", S_list1)]
      [] op = "update_tasklist" ->
            [store EXCEPT !.tasklist = Put(store.tasklist, "title", args.title)]
      [] op = "delete_tasklist" -> [tasklist |-> EmptyDict, task |-> EmptyDict]
      [] op = "create_task" ->
            [store EXCEPT !.task = Inserted(CreateBody(args.title, args.notes, args.due))]
      [] op = "update_task" ->
            [store EXCEPT !.task = MergeUpdates(store.task, args.updates)]
      [] op = "delete_task" -> [store EXCEPT !.task = EmptyDict]
      [] op = "move_task" ->
            [store EXCEPT !.task = IF args.parent = None THEN Pop(store.task, "parent")
                                   ELSE Put(store.task, "parent", args.parent[1])]
      [] op = "clear_completed" ->
            [store EXCEPT !.task = IF Get(store.task, "status", << >>) = S_completed
                                   THEN EmptyDict ELSE store.task]
      [] OTHER -> store

\* what an execute() call can raise: HttpError when the remote service answers
\* with an error status, OSError when the connection fails
RemoteFailures == {"HttpError", "OSError"}

\* "except HttpError as e: logger.error(...); raise": the only except clause
\* of an operation logs an HttpError and raises it again, any other exception
\* leaves the operation directly. failAt is the place of the call that raises
\* (0 when none does); the operation makes its calls up to that one.
CallsIssued_Retried(calls, failAt) ==
    IF failAt = 0 THEN calls
    ELSE SubSeq(calls, 1, failAt) \o << calls[failAt] >>
CallsIssued(calls, failAt) ==
    IF failAt = 0 THEN calls ELSE SubSeq(calls, 1, failAt)

\* the remote service has nothing under the id the operation names (it
\* answers the first call with 404)
NotFound(op, store) ==
    \/ op \in {"update_task", "delete_task", "move_task"} /\ DOMAIN store.task = {}
    \/ /\ op \in {"update_tasklist", "delete_tasklist", "create_task", "list_tasks",
                   "clear_completed"}
       /\ DOMAIN store.tasklist = {}

\* one operation of GoogleTasksClient
GatewayOperation ==
    /\ phase = "ready"
    /\ \E op \in GatewayOperations, exc \in RemoteFailures, applied \in BOOLEAN :
        \E args \in GatewayArguments(op), failAt \in 0..Len(RemoteCallsOf(op)) :
            LET calls == RemoteCallsOf(op)
                sent == CallsIssued(calls, failAt)
                \* an answer lost on the way back can follow a write the
                \* remote service has carried out
                done == \/ failAt = 0
                        \/ /\ failAt = Len(calls) /\ Len(sent) = Len(calls)
                           /\ exc = "OSError" /\ applied
            IN  /\ NotFound(op, remote) => (failAt = 1 /\ exc = "HttpError")
                /\ remote' = IF done THEN AfterOperation(op, args, remote) ELSE remote
                /\ call' = [tool |-> "gateway",
                            op |-> op,
                            args |-> args,
                            failAt |-> failAt,
                            applied |-> done,
                            sent |-> sent,
                            before |-> remote,
                            logged |-> failAt # 0 /\ exc = "HttpError",
                            ended |-> IF failAt = 0 THEN "returned" ELSE "raised",
                            raised |-> IF failAt = 0 THEN None ELSE Some(exc)]
                /\ phase' = "done"
    /\ UNCHANGED <<libcPadsYear, authVars>>
\* ---- specifications of the workflow tools ----

\* quick_add_task
QuickAddInit ==
    /\ AuthIdle
    /\ libcPadsYear \in BOOLEAN
    /\ remote = EmptyDict
    /\ phase = "ready"
    /\ call = NoInvocation

QuickAddNext ==
    \/ QuickAddTaskTool
    \/ NextInvocation

SpecQuickAdd == QuickAddInit /\ [][QuickAddNext]_vars

\* bulk_create_tasks on every list of up to MaxBulk titles and every pattern of
\* failures
BulkInit ==
    /\ AuthIdle
    /\ ToolsIdle

BulkNext == BulkCreateTasksTool

SpecBulk == BulkInit /\ [][BulkNext]_vars

\* search_tasks on every account of up to MaxLists lists
SearchInit ==
    /\ AuthIdle
    /\ ToolsIdle

SearchNext == SearchTasksTool

SpecSearch == SearchInit /\ [][SearchNext]_vars

\* get_task_summary on every time range and sample date
SummaryInit ==
    /\ AuthIdle
    /\ ToolsIdle

SummaryNext == GetTaskSummaryTool

SpecSummary == SummaryInit /\ [][SummaryNext]_vars

\* the tool surface: one invocation of any tool
SurfaceInit ==
    /\ AuthIdle
    /\ ToolsIdle

SurfaceNext == InvokeTool

SpecSurface == SurfaceInit /\ [][SurfaceNext]_vars

\* list_tasks on every page of up to MaxTasks sample tasks
ListPageInit ==
    /\ AuthIdle
    /\ ToolsIdle

ListPageNext == ListTasksPage

SpecListPage == ListPageInit /\ [][ListPageNext]_vars

\* update_task invocations arriving at one or several servers
ConcurrentInit ==
    /\ AuthIdle
    /\ libcPadsYear = FALSE
    /\ remote \in StoredTasks
    /\ phase = "concurrent"
    /\ call = [tool |-> "update_task in flight",
               inv |-> [i \in Invocations |-> NotInvoked],
               order |-> << >>]

ConcurrentNext ==
    \/ UpdateInvoked
    \/ UpdateFetched
    \/ UpdateWritten

SpecConcurrent == ConcurrentInit /\ [][ConcurrentNext]_vars

\* the operations of the gateway on a stored list and task
GatewayInit ==
    /\ AuthIdle
    /\ libcPadsYear = FALSE
    /\ \E task \in StoredTasks : remote = [tasklist |-> StoredList, task |-> task]
    /\ phase = "ready"
    /\ call = NoInvocation

GatewayNext ==
    \/ GatewayOperation
    \/ NextInvocation

SpecGateway == GatewayInit /\ [][GatewayNext]_vars

-----------------------------------------------------------------------------
(***************************************************************************)
(* PROPERTIES OF THE CREDENTIAL STORE (checked under SpecAuth)             *)
(***************************************************************************)

Called == auth.ended # "never"
Count(log, e) == Cardinality({i \in DOMAIN log : log[i] = e})
LoadedValid == auth.loaded # None /\ ValidAt(auth.loaded[1], auth.at)
LoadedExpiredRefreshable ==
    /\ auth.loaded # None
    /\ ExpiredAt(auth.loaded[1], auth.at)
    /\ auth.loaded[1].refresh

\* C1: when the token file holds a parseable, non-expired credential, the call
\* returns that credential and makes no refresh call and runs no grant.
C1_ValidReturnedUntouched ==
    (Called /\ LoadedValid) =>
        /\ auth.ended = "returned"
        /\ auth.creds = auth.loaded
        /\ Count(auth.log, "refresh") = 0
        /\ Count(auth.log, "grant") = 0
        /\ ~auth.refreshed /\ ~auth.granted

C1_Witness ==
    /\ Called /\ LoadedValid
    /\ auth.ended = "returned"
    /\ auth.loaded[1].refresh

\* C2: when the stored credential is expired and carries a refresh token,
\* exactly one refresh call is made in the call; if the refresh succeeds no grant
\* is run and the credential the call returns is the refreshed one.
C2_OneRefresh ==
    (Called /\ LoadedExpiredRefreshable) =>
        /\ Count(auth.log, "refresh") = 1
        /\ auth.log[1] = "refresh"
        /\ auth.refreshed =>
            /\ Count(auth.log, "grant") = 0
            /\ ~auth.granted
            /\ auth.afterRefresh # None
            /\ auth.afterRefresh[1].token # auth.loaded[1].token
            /\ ValidAt(auth.afterRefresh[1], auth.at)
            /\ auth.ended = "returned" => auth.creds = auth.afterRefresh

C2_Witness ==
    /\ Called /\ LoadedExpiredRefreshable
    /\ auth.refreshed
    /\ auth.ended = "returned"

\* C3: on every path where a credential was refreshed or granted the token file
\* is written with it before the call ends; when the call returns, the file
\* holds the returned credential; a failed write makes the call fail, returning
\* no credential.
C3_PersistedBeforeReturn ==
    Called =>
        /\ (auth.refreshed \/ auth.granted) =>
            /\ auth.log # << >>
            /\ auth.log[Len(auth.log)] = "write"
            /\ auth.writeResult # "none"
        /\ (auth.ended = "returned" /\ (auth.refreshed \/ auth.granted)) =>
            /\ auth.creds # None
            /\ auth.fileAfter = ToJson(auth.creds[1])
        /\ auth.writeResult \in {"open_failed", "write_failed"} =>
            /\ auth.ended = "raised"
            /\ auth.error = "write"
            /\ auth.creds = None

C3_Witness ==
    /\ Called
    /\ auth.refreshed
    /\ auth.ended = "returned"
    /\ auth.fileBefore # auth.fileAfter
    /\ auth.fileAfter = ToJson(auth.creds[1])

C3_WitnessWriteFails ==
    /\ Called
    /\ auth.granted
    /\ auth.writeResult = "write_failed"
    /\ auth.ended = "raised"

\* C4: whenever no usable credential exists after the load and refresh steps and
\* the client-secret file exists, the grant is run, so every credential the call
\* returns is a valid one.
C4_ReturnedIsValid ==
    /\ (Called /\ auth.secretBefore
          /\ (auth.afterRefresh = None \/ ~ValidAt(auth.afterRefresh[1], auth.at)))
        => Count(auth.log, "grant") = 1
    /\ (Called /\ auth.ended = "returned") =>
        /\ auth.creds # None
        /\ ValidAt(auth.creds[1], auth.at)

\* C5: when no usable credential exists after load/refresh and the client-secret
\* file is absent, the call fails with the configuration error, starts no grant,
\* retries nothing and does not write the token file.
C5_ConfigErrorWhenNoSecret ==
    (Called /\ ~auth.secretBefore
        /\ (auth.afterRefresh = None \/ ~ValidAt(auth.afterRefresh[1], auth.at))) =>
        /\ auth.ended = "raised"
        /\ auth.error = "config"
        /\ Count(auth.log, "grant") = 0
        /\ Count(auth.log, "refresh") <= 1
        /\ Count(auth.log, "write") = 0
        /\ auth.fileAfter = auth.fileBefore

-----------------------------------------------------------------------------
(***************************************************************************)
(* PROPERTIES OF update_task (checked under SpecUpdate)                    *)
(***************************************************************************)

\* the timestamps of the start and of the end of a day, UTC
T_StartOfDay ==
    << "T", "0", "0", ":", "0", "0", ":", "0", "0", ".", "0", "0", "0", "Z" >>
T_EndOfDay ==
    << "T", "2", "3", ":", "5", "9", ":", "5", "9", ".", "9", "9", "9", "Z" >>

\* an update_task invocation whose fetch succeeded, so that a body was written
UpdateSent == call.tool = "update_task" /\ Len(call.sent) = 2
FetchedRecord == call.fetched[1]
WrittenBody == call.sent[2].body

\* the request field that speaks of a record field, and whether the request
\* mentions it
RequestField(f) == IF f = "due" THEN "due_date" ELSE f
Mentioned(f) ==
    /\ f \in {"title", "notes", "status", "due"}
    /\ call.input[RequestField(f)] # None
SameAsFetched(f) ==
    /\ f \in DOMAIN WrittenBody <=> f \in DOMAIN FetchedRecord
    /\ f \in DOMAIN FetchedRecord => WrittenBody[f] = FetchedRecord[f]

\* C6: every field of the fetched record that the update request does not
\* mention (id, parent and position among them) has, in the body written back,
\* exactly the fetched value, and the write adds no field of its own.
C6_UnmentionedFieldsKept ==
    UpdateSent =>
        /\ call.sent[1].method = "tasks.get"
        /\ call.sent[2].method = "tasks.update"
        /\ \A f \in DOMAIN WrittenBody \cup DOMAIN FetchedRecord \cup Fields :
              ~Mentioned(f) => SameAsFetched(f)
        /\ call.ended = "ok" => remote = WrittenBody

C6_Witness ==
    /\ UpdateSent
    /\ call.ended = "ok"
    /\ call.input.title # None
    /\ call.input.notes = None
    /\ call.input.due_date = None
    /\ {"parent", "position", "notes", "due"} \subseteq DOMAIN FetchedRecord
    /\ WrittenBody # FetchedRecord

\* C7: the due-date part of an update has three outcomes: absent leaves the
\* fetched due as it was, "clear" writes a record without a due field, a date d
\* writes due = d at start-of-day UTC; and "clear" changes no other field (the
\* body is that of the same request without a due date, less its due field).
C7_DueDateOutcomes ==
    UpdateSent =>
        LET d == call.input.due_date
            withoutDue == [call.input EXCEPT !.due_date = None]
        IN  /\ d = None => SameAsFetched("due")
            /\ d = Some(S_clear) =>
                /\ "due" \notin DOMAIN WrittenBody
                /\ \A f \in (DOMAIN FetchedRecord \cup Fields) \ {"due"} :
                      ~Mentioned(f) => SameAsFetched(f)
                /\ WrittenBody
                     = Pop(MergeUpdates(FetchedRecord, UpdatesOf(withoutDue)), "due")
            /\ (d # None /\ d[1] \in UpdateDates) =>
                /\ "due" \in DOMAIN WrittenBody
                /\ WrittenBody["due"]
                     = d[1] \o T_StartOfDay

C7_Witness ==
    /\ UpdateSent
    /\ call.ended = "ok"
    /\ call.input.due_date = Some(S_clear)
    /\ call.input.title # None
    /\ "due" \in DOMAIN FetchedRecord
    /\ "due" \notin DOMAIN remote
    /\ remote["notes"] = FetchedRecord["notes"]

-----------------------------------------------------------------------------
(***************************************************************************)
(* PROPERTIES OF THE RENDERER (checked under SpecRender)                   *)
(***************************************************************************)

\* the text format_multiple_tasks joins before it looks at the length
Joined(tasks, format_type, title) ==
    IF format_type = "json" THEN JsonList(tasks)
    ELSE S_H1 \o title \o S_NLNL
         \o (IF format_type = "concise" THEN JoinConcise(tasks, 1)
             ELSE JoinBlocks(tasks, format_type, 1))

Rendered == phase = "done" /\ call.tool = "format_multiple_tasks"

\* C8: for every list of tasks and each of the four formats the text returned
\* by format_multiple_tasks is at most CHARACTER_LIMIT long, and when the joined
\* rendering is longer than that the text ends with the truncation marker.
C8_WithinCharacterLimit ==
    Rendered =>
        /\ Len(call.output[1]) <= CHARACTER_LIMIT
        /\ (call.tasks # << >>
              /\ Len(Joined(TasksOf(call.tasks), call.format_type, call.title))
                   > CHARACTER_LIMIT)
            => EndsWith(call.output[1], S_Truncated)

\* What does hold: C8 for the three formats other than json.
WithinCharacterLimitExceptJson ==
    (Rendered /\ call.format_type # "json") =>
        /\ Len(call.output[1]) <= CHARACTER_LIMIT
        /\ (call.tasks # << >>
              /\ Len(Joined(TasksOf(call.tasks), call.format_type, call.title))
                   > CHARACTER_LIMIT)
            => /\ EndsWith(call.output[1], S_Truncated)
               /\ Len(call.output[1])
                    = CHARACTER_LIMIT - TruncateMargin + Len(S_Truncated)

-----------------------------------------------------------------------------
(***************************************************************************)
(* PROPERTIES OF THE DATE MAPPING (checked under SpecDates)                *)
(***************************************************************************)

\* the date a displayed task was created with
Shown ==
    /\ phase = "shown"
    /\ call.tool = "format_task"
    /\ call.format_type # "json"
    /\ Truthy(call.due_date)

ShowsDate(d) ==
    CASE call.format_type = "concise" ->
            EndsWith(call.output, S_ConciseDue \o d)
      [] call.format_type = "markdown" ->
            EndsWith(call.output, S_NL \o S_MdDueLabel \o d \o S_NL)
      [] call.format_type = "detailed" ->
            Contains(call.output, S_NL \o S_DueLabel \o d \o S_NL \o S_StatusLabel)

\* C9: for every date d in YYYY-MM-DD form, the due timestamp written for d,
\* rendered by format_task in concise, markdown or detailed mode, is displayed
\* as exactly d.
C9_DueRoundTrip ==
    Shown =>
        /\ call.task["due"] = call.due_date[1] \o T_StartOfDay
        /\ ShowsDate(call.due_date[1])

\* What does hold: the round trip for years of four digits and, where the
\* platform pads %Y, for every year.
DueRoundTripFromYear1000 ==
    (Shown /\ (libcPadsYear \/ Num(call.due_date[1], 1, 4) >= 1000)) =>
        ShowsDate(call.due_date[1])

\* a filter given as v is sent under key k with that suffix, or not at all
SentAs(params, k, v, suffix) ==
    IF Truthy(v)
    THEN k \in DOMAIN params /\ params[k] = v[1] \o suffix
    ELSE k \notin DOMAIN params

\* C10: a plain date given for due, due_min, completed_min or updated_min is
\* sent as that date at T00:00:00.000Z, one given for due_max or completed_max
\* as that date at T23:59:59.999Z, and a filter that is not supplied is not sent.
C10_DateMapping ==
    /\ call.tool = "list_tasks" =>
        LET p == call.sent[1].params
            in == call.input
        IN  /\ SentAs(p, "dueMin", in.due_min, T_StartOfDay)
            /\ SentAs(p, "dueMax", in.due_max, T_EndOfDay)
            /\ SentAs(p, "completedMin", in.completed_min, T_StartOfDay)
            /\ SentAs(p, "completedMax", in.completed_max, T_EndOfDay)
            /\ SentAs(p, "updatedMin", in.updated_min, T_StartOfDay)
    /\ (call.tool = "create_task" /\ call.sent # << >>) =>
        SentAs(call.sent[1].body, "due", call.input.due_date, T_StartOfDay)

C10_Witness ==
    /\ call.tool = "list_tasks"
    /\ call.input.due_min = None
    /\ call.input.due_max = Some(FilterDate)
    /\ call.input.completed_max = Some(FilterDate)
    /\ call.input.updated_min = Some(FilterDate)
    /\ "dueMin" \notin DOMAIN call.sent[1].params
    /\ call.sent[1].params["dueMax"] = FilterDate \o T_EndOfDay
    /\ call.sent[1].params["updatedMin"] = FilterDate \o T_StartOfDay

-----------------------------------------------------------------------------
(***************************************************************************)
(* PROPERTIES OF quick_add_task (checked under SpecQuickAdd)               *)
(***************************************************************************)

\* the recognised phrases in the order of the claim, each with its offset in days
RecognisedPhrases ==
    << [phrase |-> S_tomorrow, days |-> 1],
       [phrase |-> S_today, days |-> 0],
       [phrase |-> S_next_week, days |-> 7] >>

QuickAdded == call.tool = "quick_add_task" /\ Len(call.sent) = 1
QuickAddBody == call.sent[1].body
TextHas(i) == Contains(lower(call.input.text), RecognisedPhrases[i].phrase)
OnlyPhrase(i) == TextHas(i) /\ \A j \in DOMAIN RecognisedPhrases \ {i} : ~TextHas(j)
NoPhrase == \A j \in DOMAIN RecognisedPhrases : ~TextHas(j)
DueIsTodayPlus(n) ==
    /\ "due" \in DOMAIN QuickAddBody
    /\ QuickAddBody["due"] = IsoDate(AddDays(call.today, n)) \o T_StartOfDay
TitleWithout(i) ==
    QuickAddBody["title"]
        = strip(Replace(lower(call.input.text), RecognisedPhrases[i].phrase, << >>))

\* C11 as stated: a text with a recognised phrase is created lower-cased and
\* trimmed with the phrase removed and due on today + the phrase's offset; a
\* text with none is created with the title exactly as given and no due date.
C11_QuickAddOutcomes ==
    QuickAdded =>
        /\ \A i \in DOMAIN RecognisedPhrases :
            OnlyPhrase(i) => TitleWithout(i) /\ DueIsTodayPlus(RecognisedPhrases[i].days)
        /\ NoPhrase =>
            /\ QuickAddBody["title"] = call.input.text
            /\ "due" \notin DOMAIN QuickAddBody

\* C11 amended: as above, but the title of a text with no recognised phrase
\* is the text with its leading and trailing whitespace removed (case kept).
C11_QuickAddOutcomesTrimmed ==
    QuickAdded =>
        /\ \A i \in DOMAIN RecognisedPhrases :
            OnlyPhrase(i) => TitleWithout(i) /\ DueIsTodayPlus(RecognisedPhrases[i].days)
        /\ NoPhrase =>
            /\ QuickAddBody["title"] = strip(call.input.text)
            /\ Contains(call.input.text, QuickAddBody["title"])
            /\ "due" \notin DOMAIN QuickAddBody

\* "  Meeting Friday " has been created as "Meeting Friday" with no due date
C11_Witness ==
    /\ QuickAdded /\ call.ended = "ok"
    /\ call.input.text = S_PaddedMeeting
    /\ remote["title"] = S_MeetingFriday
    /\ "due" \notin DOMAIN remote

\* "Buy milk tomorrow" on 2024-12-31 has been created as "buy milk", due
\* 2025-01-01
C11_WitnessPhrase ==
    /\ QuickAdded /\ call.ended = "ok"
    /\ call.input.text = S_BuyMilkTomorrow
    /\ call.today = Date(2024, 12, 31)
    /\ remote["title"] = <<"b", "u", "y", " ", "m", "i", "l", "k">>
    /\ remote["due"] = isoformat(2025, 1, 1) \o T_StartOfDay

\* C12: of the phrases a text contains, the first in the order tomorrow,
\* today, next week decides the due date and is the only one removed: every
\* other phrase of the text is still in the title.
C12_FirstPhraseWins ==
    QuickAdded =>
        \A i \in DOMAIN RecognisedPhrases :
            (TextHas(i) /\ \A h \in 1..(i - 1) : ~TextHas(h)) =>
                /\ DueIsTodayPlus(RecognisedPhrases[i].days)
                /\ ~Contains(QuickAddBody["title"], RecognisedPhrases[i].phrase)
                /\ \A j \in (i + 1)..Len(RecognisedPhrases) :
                    TextHas(j) => Contains(QuickAddBody["title"], RecognisedPhrases[j].phrase)

\* a text with all three phrases has been created due tomorrow, with "today"
\* and "next week" left in its title
C12_Witness ==
    /\ QuickAdded /\ call.ended = "ok"
    /\ call.input.text = S_AllThree
    /\ call.today = Date(2024, 2, 28)
    /\ remote["due"] = isoformat(2024, 2, 29) \o T_StartOfDay
    /\ Contains(remote["title"], S_today)
    /\ Contains(remote["title"], S_next_week)
    /\ ~Contains(remote["title"], S_tomorrow)

-----------------------------------------------------------------------------
(***************************************************************************)
(* PROPERTIES OF bulk_create_tasks (checked under SpecBulk)                *)
(***************************************************************************)

BulkDone == call.tool = "bulk_create_tasks"
Min(a, b) == IF a < b THEN a ELSE b

\* C13: one create call per title, in input order, whatever fails; every
\* title ends in exactly one of the two lists.
C13_EveryItemAttempted ==
    BulkDone =>
        LET n == Len(call.input.tasks) IN
        /\ Len(call.sent) = n
        /\ \A i \in 1..n :
            /\ call.sent[i].method = "tasks.insert"
            /\ call.sent[i].body["title"] = call.input.tasks[i]
        /\ Len(call.created) + Len(call.failed) = n
        /\ Len(call.failed) = Cardinality({i \in 1..n : call.fails[i]})

\* three titles, the second failing: three calls, two created, one failed
C13_Witness ==
    /\ BulkDone
    /\ Len(call.input.tasks) = 3
    /\ call.fails = <<FALSE, TRUE, FALSE>>
    /\ Len(call.sent) = 3
    /\ call.created = <<call.input.tasks[1], call.input.tasks[3]>>
    /\ Len(call.failed) = 1

\* the report, line by line
SplitLines(s) ==
    LET ends == {i \in DOMAIN s : s[i] = "\n"} \cup {Len(s) + 1}
        starts == {1} \cup {i + 1 : i \in {j \in DOMAIN s : s[j] = "\n"}}
        first == {a \in starts : a <= Len(s)}
        EndOf(a) == CHOOSE e \in ends : e >= a /\ \A x \in ends : x >= a => e <= x
        Nth(k) == CHOOSE a \in first : Cardinality({x \in first : x < a}) = k - 1
    IN  [k \in 1..Cardinality(first) |-> SubSeq(s, Nth(k), EndOf(Nth(k)) - 1)]
IsItem(l) == StartsWith(l, <<"-", " ">>)
IsCreatedHeader(l) == l = <<"*", "*", "C", "r", "e", "a", "t", "e", "d", " ",
                            "t", "a", "s", "k", "s", ":", "*", "*">>
IsFailedHeader(l) == StartsWith(l, <<"U+274C", " ", "*", "*", "F", "a", "i", "l",
                                     "e", "d", ":", "*", "*">>)
HeaderAt(lines, Is(_)) ==
    IF \E i \in DOMAIN lines : Is(lines[i])
    THEN CHOOSE i \in DOMAIN lines : Is(lines[i])
    ELSE 0
CreatedSection(lines) ==
    LET c == HeaderAt(lines, IsCreatedHeader)
        f == HeaderAt(lines, IsFailedHeader)
    IN  IF c = 0 THEN << >>
        ELSE SubSeq(lines, c + 1, IF f = 0 THEN Len(lines) ELSE f - 1)
FailedSection(lines) ==
    LET f == HeaderAt(lines, IsFailedHeader)
    IN  IF f = 0 THEN << >> ELSE SubSeq(lines, f + 1, Len(lines))
Named(section) ==
    LET items == SelectSeq(section, IsItem)
    IN  [i \in DOMAIN items |-> SubSeq(items[i], 3, Len(items[i]))]
OverflowStated(section, k) ==
    \E i \in DOMAIN section : ~IsItem(section[i]) /\ Contains(section[i], Decimal(k))

\* C14: the report names the first 10 created titles and the first 5
\* failures, no others, and states how many it does not name, for the
\* created titles and for the failures, whenever there are more.
C14_ReportNamesAndOverflow ==
    BulkDone =>
        LET lines == SplitLines(call.output)
            createdPart == CreatedSection(lines)
            failedPart == FailedSection(lines)
        IN  /\ Named(createdPart) = SubSeq(call.created, 1, Min(10, Len(call.created)))
            /\ Named(failedPart) = SubSeq(call.failed, 1, Min(5, Len(call.failed)))
            /\ Len(call.created) > 10 =>
                OverflowStated(createdPart, Len(call.created) - 10)
            /\ Len(call.failed) > 5 =>
                OverflowStated(failedPart, Len(call.failed) - 5)

\* what the report does do: the names, and the overflow count of the created
\* titles only
ReportNamesAndCreatedOverflow ==
    BulkDone =>
        LET lines == SplitLines(call.output)
            createdPart == CreatedSection(lines)
            failedPart == FailedSection(lines)
        IN  /\ Named(createdPart) = SubSeq(call.created, 1, Min(10, Len(call.created)))
            /\ Named(failedPart) = SubSeq(call.failed, 1, Min(5, Len(call.failed)))
            /\ Len(call.created) > 10 =>
                OverflowStated(createdPart, Len(call.created) - 10)
            /\ Len(call.failed) > 5 =>
                ~OverflowStated(failedPart, Len(call.failed) - 5)

-----------------------------------------------------------------------------
(***************************************************************************)
(* PROPERTIES OF search_tasks (checked under SpecSearch)                   *)
(***************************************************************************)

Searched == call.tool = "search_tasks" /\ call.listsOk

\* the tasks of the lists whose fetch succeeded, as <<list, task>> positions
\* in list-then-task order
RECURSIVE Positions(_, _, _)
Positions(task_lists, fails, k) ==
    IF k > Len(task_lists) THEN << >>
    ELSE (IF fails[k] THEN << >>
          ELSE [j \in 1..Len(task_lists[k].items) |-> <<k, j>>])
         \o Positions(task_lists, fails, k + 1)
TaskAt(pos) == call.task_lists[pos[1]].items[pos[2]]
ListTitleAt(pos) == call.task_lists[pos[1]].title
HasQuery(pos) ==
    \/ Contains(lower(Get(TaskAt(pos), "title", << >>)), lower(call.input.query))
    \/ Contains(lower(Get(TaskAt(pos), "notes", << >>)), lower(call.input.query))
ExpectedMatches ==
    LET all == SelectSeq(Positions(call.task_lists, call.fails, 1), HasQuery)
    IN  SubSeq(all, 1, Min(call.input.max_results, Len(all)))

\* C15: never more than max_results matches; once there are max_results, the
\* task that completed them is the last task examined and its list is the
\* last list fetched.
C15_StopsAtMaxResults ==
    Searched =>
        /\ Len(call.matching) <= call.input.max_results
        /\ Len(call.matching) = call.input.max_results =>
            LET last == call.found[call.input.max_results] IN
            /\ call.examined[Len(call.examined)] = last
            /\ Len(call.sent) = 1 + last[1]
            /\ call.sent[Len(call.sent)].params["tasklist"] = call.task_lists[last[1]].id

\* three lists with matching tasks and max_results = 1: one task examined,
\* one list fetched
C15_Witness ==
    /\ Searched
    /\ call.input.max_results = 1
    /\ Len(call.task_lists) = 3
    /\ \A k \in 1..3 : call.task_lists[k].items = <<TaskTitled, TaskUntitled>>
    /\ call.fails = <<FALSE, FALSE, FALSE>>
    /\ call.examined = << <<1, 1>> >>
    /\ Len(call.sent) = 2
    /\ Len(call.matching) = 1

\* how one match is shown: in JSON as the record with the key _list_title,
\* otherwise as the line "**List:** <title>" followed by the rendered task
ShownWithList(pos) ==
    IF call.input.response_format = "json"
    THEN Contains(call.output,
                  JsonDict(Put(TaskAt(pos), "_list_title", ListTitleAt(pos)), 2))
    ELSE Contains(call.output,
                  <<"*", "*", "L", "i", "s", "t", ":", "*", "*", " ">>
                  \o ListTitleAt(pos) \o <<"\n">>
                  \o format_task(TaskAt(pos), call.input.response_format))

\* C16: the matches are the first max_results tasks, in list-then-task order,
\* whose title or notes contain the query in any case, and each is shown with
\* the title of its list, in every format.
C16_ExactMatchesWithListTitle ==
    (Searched /\ call.ended = "ok") =>
        /\ call.found = ExpectedMatches
        /\ Len(call.matching) = Len(ExpectedMatches)
        /\ \A i \in DOMAIN ExpectedMatches :
            /\ Pop(call.matching[i], "_list_title") = TaskAt(ExpectedMatches[i])
            /\ ShownWithList(ExpectedMatches[i])

\* two lists, only the second with a task whose notes contain the query:
\* exactly that task, with the second list's title
C16_Witness ==
    /\ Searched /\ call.ended = "ok"
    /\ call.input.response_format = "markdown"
    /\ Len(call.task_lists) = 2
    /\ call.task_lists[1].items = << >>
    /\ call.task_lists[2].items = <<TaskOther, TaskNoted>>
    /\ call.fails = <<FALSE, FALSE>>
    /\ call.found = << <<2, 2>> >>
    /\ Contains(call.output, <<"*", "*", "L", "i", "s", "t", ":", "*", "*", " ",
                               "P", "r", "o", "j", "e", "c", "t", " ", "2", "\n">>)

\* C17: a list whose fetch fails is skipped: the lists after it are fetched
\* and searched as far as max_results allows, the matches of the other lists
\* are returned, and the result is not an error.
C17_FailedListSkipped ==
    (Searched /\ \E k \in DOMAIN call.fails : call.fails[k]) =>
        /\ call.ended = "ok"
        /\ ~StartsWith(call.output, S_ErrSearching)
        /\ call.found = ExpectedMatches
        /\ Len(call.sent) - 1 =
              IF Len(ExpectedMatches) = call.input.max_results
              THEN ExpectedMatches[Len(ExpectedMatches)][1]
              ELSE Len(call.task_lists)
        /\ \A k \in 1..(Len(call.sent) - 1) :
              call.sent[k + 1].params["tasklist"] = call.task_lists[k].id

\* three lists, the fetch of the second failing: matches of the first and of
\* the third are returned
C17_Witness ==
    /\ Searched /\ call.ended = "ok"
    /\ Len(call.task_lists) = 3
    /\ call.fails = <<FALSE, TRUE, FALSE>>
    /\ call.task_lists[2].items = <<TaskTitled, TaskUntitled>>
    /\ call.found = << <<1, 2>>, <<3, 1>>, <<3, 2>> >>
    /\ Len(call.sent) = 4

-----------------------------------------------------------------------------
(***************************************************************************)
(* PROPERTIES OF get_task_summary (checked under SpecSummary)              *)
(***************************************************************************)

Summarised == call.tool = "get_task_summary"
NoFilter == << >>
FilterPair ==
    << IF "due_min" \in DOMAIN call.filters THEN call.filters["due_min"] ELSE NoFilter,
       IF "due_max" \in DOMAIN call.filters THEN call.filters["due_max"] ELSE NoFilter >>
Day(n) == IsoDate(AddDays(call.today, n))

\* C18: with t the current local date, the pair (due_min, due_max) handed to
\* the gateway is (t, t) for today, (t+1, t+1) for tomorrow, (t, t+7) for
\* week, (none, t-1) for overdue and (none, none) for all; one request is
\* made, for the list '@default', and it carries the pair as dueMin / dueMax.
C18_SummaryFilters ==
    Summarised =>
        /\ FilterPair =
              CASE call.input.time_range = "today" -> << Day(0), Day(0) >>
                [] call.input.time_range = "tomorrow" -> << Day(1), Day(1) >>
                [] call.input.time_range = "week" -> << Day(0), Day(7) >>
                [] call.input.time_range = "overdue" -> << NoFilter, Day(-1) >>
                [] call.input.time_range = "all" -> << NoFilter, NoFilter >>
        /\ DOMAIN call.filters \subseteq {"due_min", "due_max"}
        /\ Len(call.sent) = 1
        /\ call.sent[1].params["tasklist"] = <<"@", "d", "e", "f", "a", "u", "l", "t">>
        /\ ("dueMin" \in DOMAIN call.sent[1].params) = (FilterPair[1] # NoFilter)
        /\ ("dueMax" \in DOMAIN call.sent[1].params) = (FilterPair[2] # NoFilter)
        /\ FilterPair[1] # NoFilter =>
              call.sent[1].params["dueMin"] = FilterPair[1] \o T_StartOfDay
        /\ FilterPair[2] # NoFilter =>
              call.sent[1].params["dueMax"] = FilterPair[2] \o T_EndOfDay

\* the overdue summary asked for on 2024-03-01 has been fetched with no lower
\* bound and due_max 2024-02-29
C18_Witness ==
    /\ Summarised /\ call.ended = "ok"
    /\ call.input.time_range = "overdue"
    /\ call.today = Date(2024, 3, 1)
    /\ FilterPair = << NoFilter, <<"2", "0", "2", "4", "-", "0", "2", "-", "2", "9">> >>
    /\ call.sent[1].params["tasklist"] = S_default

\* the week summary asked for on 2024-12-31 has been fetched for
\* 2024-12-31 .. 2025-01-07
C18_WitnessWeek ==
    /\ Summarised /\ call.ended = "ok"
    /\ call.input.time_range = "week"
    /\ call.today = Date(2024, 12, 31)
    /\ FilterPair = << isoformat(2024, 12, 31), isoformat(2025, 1, 7) >>

-----------------------------------------------------------------------------
(***************************************************************************)
(* PROPERTIES OF THE TOOL SURFACE (checked under SpecSurface)              *)
(***************************************************************************)

Invoked == call.tool = "invoke"
Accepted == Invoked /\ call.ended # "rejected"
RaisedAt(i) == i \in DOMAIN call.calls /\ call.raises[i]

\* C19: whatever a Gateway or Renderer call of any tool raises, the
\* invocation returns a text; an exception that ends the tool's work is
\* turned into a text starting with "Error" that quotes it.
C19_NoExceptionEscapes ==
    Accepted =>
        /\ call.returns \in {"result text", "error text"}
        /\ call.ended # "escaped"
        /\ call.returns = "error text" =>
            /\ \E i \in DOMAIN call.calls : RaisedAt(i)
            /\ call.output # None
            /\ StartsWith(call.output[1], <<"E", "r", "r", "o", "r", " ">>)
            /\ Contains(call.output[1], ExceptionText(call.exc))
        /\ call.returns = "result text" => Len(call.calls) = Len(ToolSteps(call.name))

\* move_task whose rendering raised KeyError has returned
\* "Error moving task: 'id'. Please verify ..."
C19_Witness ==
    /\ Accepted
    /\ call.name = "move_task"
    /\ call.raises = <<FALSE, TRUE>>
    /\ call.exc = "KeyError"
    /\ call.returns = "error text"
    /\ StartsWith(call.output[1],
                  <<"E", "r", "r", "o", "r", " ", "m", "o", "v", "i", "n", "g", " ",
                    "t", "a", "s", "k", ":", " ", "'", "i", "d", "'", ".">>)

\* C20: an input that breaks a declared constraint is rejected before any
\* Gateway call, so no remote call is made for it.
C20_RejectedBeforeAnyCall ==
    (Invoked /\ call.violates # "none") =>
        /\ call.ended = "rejected"
        /\ call.calls = << >>
        /\ call.remoteCalls = 0

\* what holds: every declared constraint but the ISO form of a due date
\* outside create_task is checked before the body runs
RejectedUnlessUncheckedDueDate ==
    (Invoked /\ call.violates # "none") =>
        \/ /\ call.ended = "rejected"
           /\ call.calls = << >>
           /\ call.remoteCalls = 0
        \/ /\ call.violates = "due_date_iso"
           /\ call.name \in {"update_task", "list_tasks", "bulk_create_tasks"}
           /\ call.ended # "rejected"
           /\ call.remoteCalls > 0


-----------------------------------------------------------------------------
(***************************************************************************)
(* PROPERTIES OF PAGINATION (checked under SpecSummary)                    *)
(***************************************************************************)

\* a listing tool has returned its text for a response of the remote service
ListingAnswered == Summarised /\ call.ended = "ok"

\* the one list request of the invocation carries no page token of the tool's
\* own making
NoFollowUpPageRequest ==
    ListingAnswered =>
        /\ Len(call.sent) = 1
        /\ "pageToken" \notin DOMAIN call.sent[1].params

\* C21: no tool issues a follow-up page request on its own, and a tool whose
\* listing response carries a continuation token shows that token in the text
\* it returns.
C21_TokenSurfaced ==
    /\ NoFollowUpPageRequest
    /\ (ListingAnswered /\ Truthy(call.nextPageToken)) =>
          Contains(call.output, call.nextPageToken[1])

-----------------------------------------------------------------------------
(***************************************************************************)
(* MORE PROPERTIES OF THE CREDENTIAL STORE (checked under SpecAuth)        *)
(***************************************************************************)

\* the token file was there and did not parse; the refresh call was made and
\* failed
ParseFailed == auth.fileBefore.kind = "corrupt"
RefreshFailed == Count(auth.log, "refresh") = 1 /\ ~auth.refreshed

\* C22: neither a parse failure of the token file nor a failure of the refresh
\* call ends the call: the credential counts as absent, and the call goes on
\* to the client-secret check (the configuration error when the file is
\* missing) and to the grant, whose credential it returns once saved.
C22_LoadAndRefreshFailuresAbsorbed ==
    (Called /\ (ParseFailed \/ RefreshFailed)) =>
        /\ ParseFailed => auth.loaded = None
        /\ auth.afterRefresh = None
        /\ ~auth.secretBefore =>
            /\ auth.ended = "raised" /\ auth.error = "config"
            /\ Count(auth.log, "grant") = 0
        /\ auth.secretBefore =>
            /\ Count(auth.log, "grant") = 1
            /\ auth.error \in {"none", "grant", "write"}
            /\ auth.error = "grant" <=> ~auth.granted
            /\ (auth.granted /\ auth.writeResult = "ok") =>
                /\ auth.ended = "returned"
                /\ auth.creds # None
                /\ ValidAt(auth.creds[1], auth.at)
                /\ auth.creds # auth.loaded

\* a failed refresh was followed by a grant, whose credential was returned
C22_Witness ==
    /\ Called /\ RefreshFailed
    /\ auth.log = << "refresh", "grant", "write" >>
    /\ auth.granted
    /\ auth.ended = "returned"

\* a token file that does not parse was followed by a grant
C22_WitnessParse ==
    /\ Called /\ ParseFailed
    /\ auth.log = << "grant", "write" >>
    /\ auth.ended = "returned"

-----------------------------------------------------------------------------
(***************************************************************************)
(* MORE PROPERTIES OF update_task (checked under SpecUpdate)               *)
(***************************************************************************)

\* the written body carries value v for field f
Written(f, v) == f \in DOMAIN WrittenBody /\ WrittenBody[f] = v

\* the due date of the request is written: a date at start-of-day UTC, or no
\* due field for 'clear'
DueWritten ==
    LET d == call.input.due_date
    IN  /\ d = Some(S_clear) => "due" \notin DOMAIN WrittenBody
        /\ (d # None /\ d[1] \in UpdateDates) => Written("due", d[1] \o T_StartOfDay)

\* C23: for every field that is present in the update request (title, notes,
\* status, due_date), the record written back carries the requested value for
\* that field, including when the requested notes value is the empty string.
C23_RequestedValuesWritten ==
    UpdateSent =>
        /\ call.input.title # None => Written("title", call.input.title[1])
        /\ call.input.notes # None => Written("notes", call.input.notes[1])
        /\ call.input.status # None => Written("status", call.input.status[1])
        /\ DueWritten

\* What does hold: the same for notes that are not the empty string.
RequestedValuesWrittenUnlessEmptyNotes ==
    UpdateSent =>
        /\ call.input.title # None => Written("title", call.input.title[1])
        /\ Truthy(call.input.notes) => Written("notes", call.input.notes[1])
        /\ call.input.status # None => Written("status", call.input.status[1])
        /\ DueWritten
        /\ call.input.notes = Some(<< >>) => SameAsFetched("notes")

-----------------------------------------------------------------------------
(***************************************************************************)
(* PROPERTIES OF list_tasks (checked under SpecListPage)                   *)
(***************************************************************************)

Listed == phase = "done" /\ call.tool = "list_tasks" /\ call.ended = "ok"

\* the pagination notice list_tasks appends for a token
PageNotice(token) == S_MoreResults \o token \o S_NextPage

\* C24: the text list_tasks returns, the rendering of the tasks with the
\* 'More results available' notice appended, is never longer than the
\* character limit, for every page of tasks and every continuation token.
C24_ListTextWithinLimit ==
    Listed => Len(call.output) <= CHARACTER_LIMIT

\* What does hold: for the formats other than json, the text without the
\* notice is within the limit, and the notice is appended whole after it.
ListTextWithinLimitBeforeNotice ==
    (Listed /\ call.input.response_format # "json") =>
        IF Truthy(call.nextPageToken) /\ call.tasks # << >>
        THEN /\ EndsWith(call.output, PageNotice(call.nextPageToken[1]))
             /\ Len(call.output) - Len(PageNotice(call.nextPageToken[1]))
                  <= CHARACTER_LIMIT
        ELSE Len(call.output) <= CHARACTER_LIMIT

-----------------------------------------------------------------------------
(***************************************************************************)
(* MORE PROPERTIES OF get_task_summary (checked under SpecSummary)         *)
(***************************************************************************)

SummaryShown == Summarised /\ call.ended = "ok" /\ call.tasks # << >>

\* the places of the fetched tasks whose status is, or is not, 'completed'
CompletedAt ==
    {i \in DOMAIN call.tasks :
        "status" \in DOMAIN call.tasks[i] /\ call.tasks[i]["status"] = S_completed}
PendingAt ==
    {i \in DOMAIN call.tasks :
        "status" \notin DOMAIN call.tasks[i] \/ call.tasks[i]["status"] # S_completed}

\* the first n places of a set of places, in increasing order
Before(S, i) == Cardinality({j \in S : j < i})
FirstPlaces(S, n) ==
    LET first == {i \in S : Before(S, i) < n}
    IN  [k \in 1..Cardinality(first) |-> CHOOSE i \in first : Before(S, i) = k - 1]

\* the fetched tasks at these places, each rendered and followed by a newline
RECURSIVE RenderedAt(_, _)
RenderedAt(places, k) ==
    IF k > Len(places) THEN << >>
    ELSE format_task(call.tasks[places[k]], call.input.response_format) \o S_NL
         \o RenderedAt(places, k + 1)

\* C25: the fetched tasks are split into pending (status not 'completed') and
\* completed, every task in exactly one part; the text shows the first 20
\* pending and the first 10 completed tasks at most, in fetched order; the
\* completed section is there only when include_completed is set.
C25_PartitionAndCaps ==
    SummaryShown =>
        LET pending == FirstPlaces(PendingAt, 20)
            completed == FirstPlaces(CompletedAt, 10)
            pendingSection ==
                IF PendingAt # {} THEN S_PendingHeader \o RenderedAt(pending, 1)
                ELSE << >>
            completedSection ==
                IF call.input.include_completed /\ CompletedAt # {}
                THEN S_CompletedHeader \o RenderedAt(completed, 1)
                ELSE << >>
            note ==
                IF Truthy(call.nextPageToken)
                THEN S_MoreNote \o Decimal(Len(call.tasks)) \o S_TasksDot
                ELSE << >>
            counts ==
                S_SummaryLabel \o Decimal(Cardinality(PendingAt)) \o S_PendingCount
                \o (IF call.input.include_completed
                    THEN S_CommaSpace \o Decimal(Cardinality(CompletedAt))
                         \o S_CompletedCount
                    ELSE << >>)
        IN  /\ PendingAt \cup CompletedAt = DOMAIN call.tasks
            /\ PendingAt \cap CompletedAt = {}
            /\ Len(pending) <= 20 /\ Len(completed) <= 10
            /\ StartsWith(call.output, S_H1)
            /\ EndsWith(call.output,
                        S_NLNL \o counts \o S_NLNL \o pendingSection
                        \o completedSection \o note)
            /\ ~call.input.include_completed =>
                  ~Contains(call.output, S_CompletedHeader)

\* a page of more than 20 pending and more than 10 completed tasks has been
\* summarised with its completed tasks
C25_Witness ==
    /\ SummaryShown
    /\ call.input.include_completed
    /\ call.input.response_format = "concise"
    /\ Cardinality(PendingAt) > 20
    /\ Cardinality(CompletedAt) > 10
    /\ "status" \notin DOMAIN call.tasks[1]
    /\ Contains(call.output, S_CompletedHeader)

-----------------------------------------------------------------------------
(***************************************************************************)
(* PROPERTIES OF CONCURRENT UPDATES (checked under SpecConcurrent)         *)
(***************************************************************************)

InFlight == phase = "concurrent"

\* the record fields the request of invocation i speaks of
Touched(i) ==
    {f \in {"title", "notes", "status", "due"} :
        call.inv[i].input[RequestField(f)] # None}

\* field f of a record, None when the record has no such field
FieldOf(rec, f) == IF f \in DOMAIN rec THEN Some(rec[f]) ELSE None

\* both have written, and i wrote between the fetch and the write of j
StaleWrite(i, j) ==
    /\ i # j
    /\ call.inv[i].pc = "done" /\ call.inv[j].pc = "done"
    /\ i \in call.inv[j].missed

LastWriter == call.order[Len(call.order)]

\* C26: update_task invocations on the same task are not kept apart: when two
\* of them have both fetched the record before either wrote, the later write
\* is the full record as its invocation fetched it with only its own field
\* changed, so it puts back the old value of the field the earlier one
\* changed, although the two requests speak of different fields.
C26_StaleWriteOverwrites ==
    InFlight =>
        \A i, j \in Invocations :
            StaleWrite(i, j) =>
                /\ \A f \in Touched(i) \ Touched(j) :
                      FieldOf(call.inv[j].body[1], f) = FieldOf(call.inv[j].fetched[1], f)
                /\ LastWriter = j => remote = call.inv[j].body[1]

\* the lost update: two requests for different fields, both fetched before
\* either wrote, and the record the remote service holds after both writes
\* lacks the change the first writer made
LostUpdate(i, j) ==
    /\ StaleWrite(i, j)
    /\ Touched(i) \cap Touched(j) = {}
    /\ LastWriter = j
    /\ \E f \in Touched(i) :
          /\ FieldOf(call.inv[i].body[1], f) # FieldOf(call.inv[i].fetched[1], f)
          /\ FieldOf(remote, f) = FieldOf(call.inv[i].fetched[1], f)

C26_Witness ==
    /\ InFlight
    /\ \E i, j \in Invocations : LostUpdate(i, j)

\* Within one server the invocations do not interleave: a stale write comes
\* from an invocation of another server.
StaleWriteAcrossServers ==
    InFlight =>
        \A i, j \in Invocations :
            StaleWrite(i, j) => call.inv[i].server # call.inv[j].server

-----------------------------------------------------------------------------
(***************************************************************************)
(* PROPERTIES OF THE GATEWAY (checked under SpecGateway)                   *)
(***************************************************************************)

GatewayDone == phase = "done" /\ call.tool = "gateway"

\* the calls made are the first ones of the operation, in order, each once
MadeOnceInOrder ==
    /\ Len(call.sent) <= Len(RemoteCallsOf(call.op))
    /\ \A k \in DOMAIN call.sent : call.sent[k] = RemoteCallsOf(call.op)[k]

\* C27: every operation of the gateway makes each of its remote calls at most
\* once (no retry) and hands a remote failure to its caller; when the fetch of
\* update_task or update_tasklist fails, no write call is made and the remote
\* record is as it was.
C27_FailurePropagates ==
    GatewayDone =>
        /\ MadeOnceInOrder
        /\ call.failAt # 0 =>
            /\ call.ended = "raised"
            /\ call.raised \in {Some(e) : e \in RemoteFailures}
            /\ Len(call.sent) = call.failAt
        /\ call.failAt = 0 =>
            /\ call.ended = "returned"
            /\ call.sent = RemoteCallsOf(call.op)
        /\ (call.op \in {"update_task", "update_tasklist"} /\ call.failAt = 1) =>
            /\ Len(call.sent) = 1
            /\ call.sent[1] \in {"tasks.get", "tasklists.get"}
            /\ remote = call.before

\* the fetch of update_task failed for a stored task: one call, the record as
\* it was
C27_Witness ==
    /\ GatewayDone
    /\ call.op = "update_task"
    /\ call.failAt = 1
    /\ call.ended = "raised"
    /\ call.sent = << "tasks.get" >>
    /\ DOMAIN call.before.task # {}
    /\ remote = call.before
    /\ MergeUpdates(call.before.task, call.args.updates) # call.before.task

-----------------------------------------------------------------------------
(***************************************************************************)
(* PROPERTIES OF THE TITLES OF CREATED TASKS (checked under SpecQuickAdd)  *)
(***************************************************************************)

Creating == call.tool \in {"create_task", "quick_add_task", "bulk_create_tasks"}

\* the titles of the create calls the invocation handed to the gateway
TitlesSent ==
    {call.sent[k].body["title"] :
        k \in {n \in DOMAIN call.sent : call.sent[n].method = "tasks.insert"}}

\* C28: every create call a tool sends to the gateway carries a title of 1 to
\* 500 characters; quick_add_task never creates a task with an empty title
\* when the text is only a recognised date phrase.
C28_CreatedTitleLength ==
    Creating => \A title \in TitlesSent : Len(title) \in 1..TITLE_MAX

\* What does hold: the title quick_add_task sends is never longer than the text.
QuickAddTitleWithinText ==
    (Creating /\ call.tool = "quick_add_task") =>
        \A title \in TitlesSent : Len(title) <= Len(call.input.text)

\* the call left the token file alone: it did not open it for writing
FileUntouched ==
    /\ Count(auth.log, "write") = 0
    /\ auth.writeResult = "none"
    /\ auth.fileAfter = auth.fileBefore

\* What does hold: with a valid stored credential, and whenever the call fails
\* for want of the client-secret file or of the grant, the file is as before.
FrameOnValidAndFailedPaths ==
    Called =>
        /\ LoadedValid => FileUntouched
        /\ (auth.ended = "raised" /\ auth.error \in {"config", "grant"}) => FileUntouched

\* C29: on the path where the stored credential is already valid, and on every
\* path where the call fails (missing client-secret file, failed grant), the
\* token file is left exactly as it was; the token file is written only after
\* a successful refresh or grant.
C29_WrittenOnlyAfterRefreshOrGrant ==
    /\ FrameOnValidAndFailedPaths
    /\ (Called /\ Count(auth.log, "write") > 0) => (auth.refreshed \/ auth.granted)

====
